---- MODULE Spec2Model ----
(***************************************************************************)
(* Stock and totals engine of the purchases (compras) and sales (ventas)   *)
(* applications: the stock primitives, the totals calculators, the stock   *)
(* reconciliation after an edit and the create/edit views that sequence    *)
(* them, over the Producto table with its CHECK constraints.               *)
(*                                                                         *)
(* Money is held in cents (integers); a tax rate is held in basis points   *)
(* of the fraction (0.23 = 2300); a percentage of discount as an integer.  *)
(***************************************************************************)
EXTENDS Integers, Sequences, FiniteSets, TLC

\* ------------------------------------------------------------------ bounds
MaxStock == 3
MaxCantidad == 2

\* ------------------------------------------------------- program constants
NULL == -1
ALLOW_SOFT_MINIMO_EN_VENTA == TRUE

Productos == {1, 2}
Cantidades == 1..MaxCantidad
CantidadesPedido == {1, 2}
\* The ids a line of an order can take (one sequence per line table).
IdsLinea == {1, 2}
MaxLineas == Cardinality(IdsLinea)
Precios == {250}
DescuentosPct == {0, 10, 15}
DescuentosPctPedido == {10}
DescuentosMonto == {0}
ImpuestosPct == {2300}

\* stock, stock_minimo, precio_compra: the Producto table, by product id.
\* compra, venta, sig_id, ult: the order followed, the next line ids, the last
\* request. rec: one run of a reconciliation service. candado, txn, inicial:
\* row locks, transactions and the stock they started from. tot: one order
\* under a totals calculator. allow_soft_minimo_en_venta: the value of the
\* module attribute ALLOW_SOFT_MINIMO_EN_VENTA, read by every sale-side call.
VARIABLES stock, stock_minimo, precio_compra, compra, venta, sig_id, ult, rec, candado, txn, inicial, tot, allow_soft_minimo_en_venta

vars == <<stock, stock_minimo, precio_compra, compra, venta, sig_id, ult, rec, candado, txn, inicial, tot, allow_soft_minimo_en_venta>>

\* What the order views leave alone.
otras == <<rec, candado, txn, inicial, tot, allow_soft_minimo_en_venta>>

\* ----------------------------------------------------------------- helpers
Min(S) == CHOOSE x \in S : \A y \in S : x <= y

RECURSIVE OrdenAsc(_)
OrdenAsc(S) == IF S = {} THEN <<>> ELSE <<Min(S)>> \o OrdenAsc(S \ {Min(S)})

Permutaciones(S) ==
    {s \in [1..Cardinality(S) -> S] : \A i, j \in 1..Cardinality(S) : i # j => s[i] # s[j]}

Restringir(f, S) == [x \in S |-> f[x]]

Unir(f, g) == [x \in (DOMAIN f) \cup (DOMAIN g) |-> IF x \in DOMAIN f THEN f[x] ELSE g[x]]

SinLineas == [x \in {} |-> 0]

\* -------------------------------------------------------------- rounding
\* Variant: ROUND_DOWN instead of ROUND_HALF_UP.
redondear_moneda_Truncar(num, den) ==
    IF num >= 0 THEN num \div den ELSE -((-num) \div den)

\* Decimal.quantize(Decimal("0.01"), ROUND_HALF_UP) of the amount num/den cents:
\* ties go away from zero (den is 1 or even).
redondear_moneda(num, den) ==
    IF num >= 0 THEN (num + den \div 2) \div den
    ELSE -(((-num) + den \div 2) \div den)

\* ------------------------------------------------- Producto table (database)
Tabla == [stock |-> stock, stock_minimo |-> stock_minimo, precio_compra |-> precio_compra]

\* Variant: the table without the CHECK stock >= 0.
ProductoConstraints_SinStockNoNegativo(s, m, pc) ==
    /\ pc >= 0
    /\ (m >= 0 \/ m = NULL)
    /\ (m <= s \/ m = NULL)

\* Variant: the table without the CHECK stock_minimo <= stock.
ProductoConstraints_SinMinimoBajoStock(s, m, pc) ==
    /\ pc >= 0
    /\ s >= 0
    /\ (m >= 0 \/ m = NULL)

\* The CHECK constraints of Producto, evaluated by the database on every UPDATE.
ProductoConstraints(s, m, pc) ==
    /\ pc >= 0
    /\ s >= 0
    /\ (m >= 0 \/ m = NULL)
    /\ (m <= s \/ m = NULL)

\* UPDATE of one Producto row: a row that violates a CHECK constraint is not
\* written and the statement raises IntegrityError.
DbUpdate(tbl, p, s, m, pc) ==
    IF ProductoConstraints(s, m, pc)
    THEN [err |-> "", tbl |-> [stock |-> [tbl.stock EXCEPT ![p] = s],
                               stock_minimo |-> [tbl.stock_minimo EXCEPT ![p] = m],
                               precio_compra |-> [tbl.precio_compra EXCEPT ![p] = pc]]]
    ELSE [err |-> "IntegrityError", tbl |-> tbl]

\* Variant: the UPDATE of the soft policy leaves stock_minimo as it is.
Least_SinBajarMinimo(a, b) == a

\* LEAST(a, b) of PostgreSQL: NULL arguments are ignored.
Least(a, b) == IF a = NULL THEN b ELSE IF b = NULL THEN a ELSE IF a <= b THEN a ELSE b

\* ---------------------------------------------------- stock primitives
\* compras/services.py: UPDATE first, then SELECT ... FOR UPDATE and check.
compras_aplicar_delta_stock_seguro(tbl, producto_id, delta_unidades) ==
    IF delta_unidades = 0 THEN [err |-> "", tbl |-> tbl]
    ELSE IF producto_id \notin Productos
    THEN [err |-> "ValidationError", tbl |-> tbl]
    ELSE LET u == DbUpdate(tbl, producto_id, tbl.stock[producto_id] + delta_unidades,
                           tbl.stock_minimo[producto_id], tbl.precio_compra[producto_id])
         IN IF u.err # "" THEN u
            ELSE IF u.tbl.stock[producto_id] < 0
            THEN [err |-> "ValidationError",
                  tbl |-> DbUpdate(u.tbl, producto_id,
                                   u.tbl.stock[producto_id] - delta_unidades,
                                   u.tbl.stock_minimo[producto_id],
                                   u.tbl.precio_compra[producto_id]).tbl]
            ELSE u

\* Variant: with the soft policy off, a delta that leaves the stock below
\* stock_minimo goes to the UPDATE instead of being refused.
ventas_aplicar_delta_stock_seguro_SinPoliticaDura(tbl, producto_id, delta_unidades) ==
    IF delta_unidades = 0 THEN [err |-> "", tbl |-> tbl]
    ELSE IF producto_id \notin Productos
    THEN [err |-> "DoesNotExist", tbl |-> tbl]
    ELSE LET stock_actual == tbl.stock[producto_id]
             minimo == tbl.stock_minimo[producto_id]
             nuevo_stock == stock_actual + delta_unidades
             queda_bajo_minimo == (minimo # NULL) /\ (nuevo_stock < minimo)
         IN IF nuevo_stock < 0 THEN [err |-> "ValidationError", tbl |-> tbl]
            ELSE IF delta_unidades < 0 /\ queda_bajo_minimo /\ allow_soft_minimo_en_venta
            THEN DbUpdate(tbl, producto_id, stock_actual + delta_unidades,
                          Least(minimo, stock_actual + delta_unidades),
                          tbl.precio_compra[producto_id])
            ELSE DbUpdate(tbl, producto_id, stock_actual + delta_unidades, minimo,
                          tbl.precio_compra[producto_id])

\* ventas/services.py: SELECT ... FOR UPDATE, check, then UPDATE.
ventas_aplicar_delta_stock_seguro(tbl, producto_id, delta_unidades) ==
    IF delta_unidades = 0 THEN [err |-> "", tbl |-> tbl]
    ELSE IF producto_id \notin Productos
    THEN [err |-> "DoesNotExist", tbl |-> tbl]
    ELSE LET stock_actual == tbl.stock[producto_id]
             minimo == tbl.stock_minimo[producto_id]
             nuevo_stock == stock_actual + delta_unidades
             queda_bajo_minimo == (minimo # NULL) /\ (nuevo_stock < minimo)
         IN IF nuevo_stock < 0 THEN [err |-> "ValidationError", tbl |-> tbl]
            ELSE IF delta_unidades < 0 /\ queda_bajo_minimo /\ allow_soft_minimo_en_venta
            THEN DbUpdate(tbl, producto_id, stock_actual + delta_unidades,
                          Least(minimo, stock_actual + delta_unidades),
                          tbl.precio_compra[producto_id])
            ELSE IF queda_bajo_minimo THEN [err |-> "ValidationError", tbl |-> tbl]
            ELSE DbUpdate(tbl, producto_id, stock_actual + delta_unidades, minimo,
                          tbl.precio_compra[producto_id])

\* One call of a primitive inside a running operation: skipped once an
\* exception is propagating, logged otherwise.
Llamar(ej, lado, pk, p, d) ==
    IF ej.err # "" THEN ej
    ELSE LET r == IF lado = "compra"
                  THEN compras_aplicar_delta_stock_seguro(ej.tbl, p, d)
                  ELSE ventas_aplicar_delta_stock_seguro(ej.tbl, p, d)
         IN [err |-> r.err, tbl |-> r.tbl,
             llamadas |-> Append(ej.llamadas,
                                 [pk |-> pk, producto |-> p, delta |-> d, err |-> r.err])]

Ejecucion(tbl) == [err |-> "", tbl |-> tbl, llamadas |-> <<>>]


\* ------------------------------------------------------------- order rows
LineasCompra == [producto : Productos, cantidad : Cantidades, precio_unitario : Precios]
LineasVenta == [producto : Productos, cantidad : Cantidades, precio_unitario : Precios,
                descuento : {0}]
\* The lines a form of the order views submits.
LineasCompraPedido ==
    [producto : Productos, cantidad : CantidadesPedido, precio_unitario : Precios]
LineasVentaPedido ==
    [producto : Productos, cantidad : CantidadesPedido, precio_unitario : Precios,
     descuento : {0}]

SinCompra == [existe |-> FALSE, descuento_porcentaje |-> 0, descuento_total |-> 0,
              impuesto_total |-> 0, subtotal |-> 0, total |-> 0, lineas |-> SinLineas]
SinVenta == [existe |-> FALSE, descuento_total |-> 0, impuesto |-> 0,
             impuesto_porcentaje |-> 0, subtotal |-> 0, total |-> 0, lineas |-> SinLineas]

\* ------------------------------------------------------ totals calculators
\* Sum(cantidad * precio_unitario) over the lines, in cents.
RECURSIVE SubtotalCompra(_)
SubtotalCompra(lineas) ==
    IF DOMAIN lineas = {} THEN 0
    ELSE LET pk == Min(DOMAIN lineas)
         IN lineas[pk].cantidad * lineas[pk].precio_unitario
            + SubtotalCompra(Restringir(lineas, (DOMAIN lineas) \ {pk}))

\* Sum(cantidad * precio_unitario * (1 - descuento/100)), in hundredths of a cent.
RECURSIVE SubtotalVenta(_)
SubtotalVenta(lineas) ==
    IF DOMAIN lineas = {} THEN 0
    ELSE LET pk == Min(DOMAIN lineas)
         IN lineas[pk].cantidad * lineas[pk].precio_unitario * (100 - lineas[pk].descuento)
            + SubtotalVenta(Restringir(lineas, (DOMAIN lineas) \ {pk}))

\* Variant: the base is taken from the discount amount found on the header
\* instead of the one just derived from the percentage.
calcular_y_guardar_totales_compra_DescuentoGuardado(c, tasa_impuesto_pct) ==
    LET subtotal_calculado == SubtotalCompra(c.lineas)
        descuento_total == redondear_moneda(subtotal_calculado * c.descuento_porcentaje, 100)
        base == IF subtotal_calculado - c.descuento_total < 0 THEN 0
                ELSE subtotal_calculado - c.descuento_total
        impuesto_total == IF tasa_impuesto_pct # NULL
                          THEN redondear_moneda(base * tasa_impuesto_pct, 10000)
                          ELSE c.impuesto_total
    IN [c EXCEPT !.subtotal = redondear_moneda(subtotal_calculado, 1),
                 !.descuento_total = descuento_total,
                 !.impuesto_total = impuesto_total,
                 !.total = redondear_moneda(base + impuesto_total, 1)]

calcular_y_guardar_totales_compra(c, tasa_impuesto_pct) ==
    LET subtotal_calculado == SubtotalCompra(c.lineas)
        descuento_total == redondear_moneda(subtotal_calculado * c.descuento_porcentaje, 100)
        base == IF subtotal_calculado - descuento_total < 0 THEN 0
                ELSE subtotal_calculado - descuento_total
        impuesto_total == IF tasa_impuesto_pct # NULL
                          THEN redondear_moneda(base * tasa_impuesto_pct, 10000)
                          ELSE c.impuesto_total
    IN [c EXCEPT !.subtotal = redondear_moneda(subtotal_calculado, 1),
                 !.descuento_total = descuento_total,
                 !.impuesto_total = impuesto_total,
                 !.total = redondear_moneda(base + impuesto_total, 1)]

\* Variant: an omitted rate resets the tax amount instead of keeping it.
calcular_y_guardar_totales_venta_ImpuestoACero(v, tasa_impuesto_pct) ==
    LET subtotal_calc == SubtotalVenta(v.lineas)
        subtotal == redondear_moneda(subtotal_calc, 100)
        desc == v.descuento_total
        base == IF subtotal_calc - 100 * desc < 0 THEN 0 ELSE subtotal_calc - 100 * desc
        imp == IF tasa_impuesto_pct # NULL
               THEN redondear_moneda(base * tasa_impuesto_pct, 1000000)
               ELSE 0
    IN [v EXCEPT !.subtotal = subtotal,
                 !.impuesto = imp,
                 !.total = redondear_moneda(subtotal - desc + imp, 1)]

calcular_y_guardar_totales_venta(v, tasa_impuesto_pct) ==
    LET subtotal_calc == SubtotalVenta(v.lineas)
        subtotal == redondear_moneda(subtotal_calc, 100)
        desc == v.descuento_total
        base == IF subtotal_calc - 100 * desc < 0 THEN 0 ELSE subtotal_calc - 100 * desc
        imp == IF tasa_impuesto_pct # NULL
               THEN redondear_moneda(base * tasa_impuesto_pct, 1000000)
               ELSE v.impuesto
    IN [v EXCEPT !.subtotal = subtotal,
                 !.impuesto = imp,
                 !.total = redondear_moneda(subtotal - desc + imp, 1)]

\* ------------------------------------------------ stock effect of a create
\* Variant: stock_minimo is set to int(stock * 0.90) without comparing it with
\* the one stored.
RECURSIVE aplicar_stock_despues_de_crear_compra_SinComparar(_, _, _)
aplicar_stock_despues_de_crear_compra_SinComparar(ej, lineas, orden) ==
    IF orden = <<>> \/ ej.err # "" THEN ej
    ELSE LET pk == Head(orden)
             linea == lineas[pk]
             e1 == Llamar(ej, "compra", pk, linea.producto, linea.cantidad)
             stock_total == e1.tbl.stock[linea.producto]
             minimo_candidato == (stock_total * 9) \div 10
             u == DbUpdate(e1.tbl, linea.producto, stock_total, minimo_candidato,
                           linea.precio_unitario)
             e2 == IF e1.err # "" THEN e1 ELSE [e1 EXCEPT !.err = u.err, !.tbl = u.tbl]
         IN aplicar_stock_despues_de_crear_compra_SinComparar(e2, lineas, Tail(orden))

\* For every line by ascending id: add the quantity, then (under the row lock)
\* set the reference cost and raise stock_minimo to int(stock * 0.90).
RECURSIVE aplicar_stock_despues_de_crear_compra(_, _, _)
aplicar_stock_despues_de_crear_compra(ej, lineas, orden) ==
    IF orden = <<>> \/ ej.err # "" THEN ej
    ELSE LET pk == Head(orden)
             linea == lineas[pk]
             e1 == Llamar(ej, "compra", pk, linea.producto, linea.cantidad)
             stock_total == e1.tbl.stock[linea.producto]
             minimo == e1.tbl.stock_minimo[linea.producto]
             minimo_candidato == (stock_total * 9) \div 10
             nuevo_minimo == IF minimo_candidato > (IF minimo = NULL THEN 0 ELSE minimo)
                             THEN minimo_candidato ELSE minimo
             u == DbUpdate(e1.tbl, linea.producto, stock_total, nuevo_minimo,
                           linea.precio_unitario)
             e2 == IF e1.err # "" THEN e1 ELSE [e1 EXCEPT !.err = u.err, !.tbl = u.tbl]
         IN aplicar_stock_despues_de_crear_compra(e2, lineas, Tail(orden))

\* crear_compra, step 2: reference cost again and, when stock_minimo is empty
\* or 0, stock_minimo := int(cantidad * 0.90).
RECURSIVE AjustarPrecioYMinimo(_, _, _)
AjustarPrecioYMinimo(ej, lineas, orden) ==
    IF orden = <<>> \/ ej.err # "" THEN ej
    ELSE LET linea == lineas[Head(orden)]
             p == linea.producto
             sm_actual == IF ej.tbl.stock_minimo[p] = NULL THEN 0 ELSE ej.tbl.stock_minimo[p]
             nuevo_sm == IF sm_actual = 0 THEN (linea.cantidad * 9) \div 10
                         ELSE ej.tbl.stock_minimo[p]
             u == DbUpdate(ej.tbl, p, ej.tbl.stock[p], nuevo_sm, linea.precio_unitario)
         IN AjustarPrecioYMinimo([ej EXCEPT !.err = u.err, !.tbl = u.tbl], lineas, Tail(orden))

\* Variant: a product is adjusted for the first of its lines only.
RECURSIVE aplicar_stock_despues_de_crear_venta_UnaVezPorProducto(_, _, _)
aplicar_stock_despues_de_crear_venta_UnaVezPorProducto(ej, lineas, orden) ==
    IF orden = <<>> \/ ej.err # "" THEN ej
    ELSE LET pk == Head(orden)
             repetido == \E q \in DOMAIN lineas :
                             q < pk /\ lineas[q].producto = lineas[pk].producto
         IN aplicar_stock_despues_de_crear_venta_UnaVezPorProducto(
                IF repetido THEN ej
                ELSE Llamar(ej, "venta", pk, lineas[pk].producto, -lineas[pk].cantidad),
                lineas, Tail(orden))

RECURSIVE aplicar_stock_despues_de_crear_venta(_, _, _)
aplicar_stock_despues_de_crear_venta(ej, lineas, orden) ==
    IF orden = <<>> \/ ej.err # "" THEN ej
    ELSE LET pk == Head(orden)
         IN aplicar_stock_despues_de_crear_venta(
                Llamar(ej, "venta", pk, lineas[pk].producto, -lineas[pk].cantidad),
                lineas, Tail(orden))

\* ------------------------------------------------------- reconciliation
\* One pass "for pk in <set>": signo * cantidad of mapa[pk] on its product.
RECURSIVE AplicarLineas(_, _, _, _, _)
AplicarLineas(ej, lado, signo, mapa, orden) ==
    IF orden = <<>> THEN ej
    ELSE LET pk == Head(orden)
         IN AplicarLineas(Llamar(ej, lado, pk, mapa[pk].producto, signo * mapa[pk].cantidad),
                          lado, signo, mapa, Tail(orden))

\* Variant: a persisting line is always reversed in full and re-applied in full.
RECURSIVE AplicarPersisten_DosAjustes(_, _, _, _, _, _)
AplicarPersisten_DosAjustes(ej, lado, signo, lineas_previas, lineas_actuales, orden) ==
    IF orden = <<>> THEN ej
    ELSE LET pk == Head(orden)
             antes == lineas_previas[pk]
             ahora == lineas_actuales[pk]
             e == Llamar(Llamar(ej, lado, pk, antes.producto, -signo * antes.cantidad),
                         lado, pk, ahora.producto, signo * ahora.cantidad)
         IN AplicarPersisten_DosAjustes(e, lado, signo, lineas_previas, lineas_actuales,
                                        Tail(orden))

\* Variant: a persisting line only ever gets the quantity difference, on its
\* current product.
RECURSIVE AplicarPersisten_SoloDiferencia(_, _, _, _, _, _)
AplicarPersisten_SoloDiferencia(ej, lado, signo, lineas_previas, lineas_actuales, orden) ==
    IF orden = <<>> THEN ej
    ELSE LET pk == Head(orden)
             antes == lineas_previas[pk]
             ahora == lineas_actuales[pk]
             e == Llamar(ej, lado, pk, ahora.producto,
                         signo * (ahora.cantidad - antes.cantidad))
         IN AplicarPersisten_SoloDiferencia(e, lado, signo, lineas_previas, lineas_actuales,
                                            Tail(orden))

\* The pass over the persisting lines; signo is +1 for a purchase, -1 for a sale.
RECURSIVE AplicarPersisten(_, _, _, _, _, _)
AplicarPersisten(ej, lado, signo, lineas_previas, lineas_actuales, orden) ==
    IF orden = <<>> THEN ej
    ELSE LET pk == Head(orden)
             antes == lineas_previas[pk]
             ahora == lineas_actuales[pk]
             e == IF antes.producto = ahora.producto
                  THEN Llamar(ej, lado, pk, ahora.producto,
                              signo * (ahora.cantidad - antes.cantidad))
                  ELSE Llamar(Llamar(ej, lado, pk, antes.producto, -signo * antes.cantidad),
                              lado, pk, ahora.producto, signo * ahora.cantidad)
         IN AplicarPersisten(e, lado, signo, lineas_previas, lineas_actuales, Tail(orden))

pks_eliminadas(lineas_previas, lineas_actuales) == (DOMAIN lineas_previas) \ (DOMAIN lineas_actuales)
pks_nuevas(lineas_previas, lineas_actuales) == (DOMAIN lineas_actuales) \ (DOMAIN lineas_previas)
pks_persisten(lineas_previas, lineas_actuales) == (DOMAIN lineas_previas) \cap (DOMAIN lineas_actuales)

\* oe, on, op: the orders in which the three Python sets are iterated.
reconciliar_stock_tras_editar_compra(tbl, lineas_previas, lineas_actuales, oe, on, op) ==
    LET e1 == AplicarLineas(Ejecucion(tbl), "compra", -1, lineas_previas, oe)
        e2 == AplicarLineas(e1, "compra", 1, lineas_actuales, on)
    IN AplicarPersisten(e2, "compra", 1, lineas_previas, lineas_actuales, op)

reconciliar_stock_tras_editar_venta(tbl, lineas_previas, lineas_actuales, oe, on, op) ==
    LET e1 == AplicarLineas(Ejecucion(tbl), "venta", 1, lineas_previas, oe)
        e2 == AplicarLineas(e1, "venta", -1, lineas_actuales, on)
    IN AplicarPersisten(e2, "venta", -1, lineas_previas, lineas_actuales, op)

\* ------------------------------------------------------------------ views
\* Percentage typed in the form (hundredths of a percent) to the rate handed
\* to the calculator (basis points of the fraction), or NULL.
TasaCompra(raw) == IF raw <= 10000 THEN raw ELSE NULL
TasaVenta(raw) == raw

\* is_valid() of a line formset (min_num = 1, validate_min; cantidad > 0 on
\* every line).
formset_is_valid(lineas) ==
    /\ DOMAIN lineas # {}
    /\ \A pk \in DOMAIN lineas : lineas[pk].cantidad >= 1

\* Model.delete() on a header: the row goes, and its lines with it (CASCADE).
delete_compra(c) == SinCompra
delete_venta(v) == SinVenta

\* The result of a request: the tables as committed, the error that ended the
\* stock step ("" when none), the calls of the primitive that were made and
\* whether the line formset was valid.

\* Variant: the header saved before an invalid formset is left in place.
crear_compra_SinBorrarCabecera(tbl, dpct, dmonto, imp, lineas) ==
    LET cab == [existe |-> TRUE, descuento_porcentaje |-> dpct, descuento_total |-> dmonto,
                impuesto_total |-> 0, subtotal |-> 0, total |-> 0, lineas |-> SinLineas]
        orden == OrdenAsc(DOMAIN lineas)
        e1 == aplicar_stock_despues_de_crear_compra(Ejecucion(tbl), lineas, orden)
        e2 == AjustarPrecioYMinimo(e1, lineas, orden)
    IN IF ~formset_is_valid(lineas)
       THEN [err |-> "", valido |-> FALSE, tbl |-> tbl, orden |-> cab, llamadas |-> <<>>]
       ELSE IF e2.err # ""
       THEN [err |-> e2.err, valido |-> TRUE, tbl |-> tbl, orden |-> SinCompra,
             llamadas |-> e2.llamadas]
       ELSE [err |-> "", valido |-> TRUE, tbl |-> e2.tbl,
             orden |-> calcular_y_guardar_totales_compra([cab EXCEPT !.lineas = lineas],
                                                         TasaCompra(imp)),
             llamadas |-> e2.llamadas]

crear_compra(tbl, dpct, dmonto, imp, lineas) ==
    LET cab == [existe |-> TRUE, descuento_porcentaje |-> dpct, descuento_total |-> dmonto,
                impuesto_total |-> 0, subtotal |-> 0, total |-> 0, lineas |-> SinLineas]
        orden == OrdenAsc(DOMAIN lineas)
        e1 == aplicar_stock_despues_de_crear_compra(Ejecucion(tbl), lineas, orden)
        e2 == AjustarPrecioYMinimo(e1, lineas, orden)
    IN IF ~formset_is_valid(lineas)
       THEN [err |-> "", valido |-> FALSE, tbl |-> tbl, orden |-> delete_compra(cab),
             llamadas |-> <<>>]
       ELSE IF e2.err # ""
       THEN [err |-> e2.err, valido |-> TRUE, tbl |-> tbl, orden |-> SinCompra,
             llamadas |-> e2.llamadas]
       ELSE [err |-> "", valido |-> TRUE, tbl |-> e2.tbl,
             orden |-> calcular_y_guardar_totales_compra([cab EXCEPT !.lineas = lineas],
                                                         TasaCompra(imp)),
             llamadas |-> e2.llamadas]

editar_compra(tbl, c, dpct, dmonto, imp, lineas_actuales, oe, on, op) ==
    LET estado_previo_lineas == c.lineas
        cab == [c EXCEPT !.descuento_porcentaje = dpct, !.descuento_total = dmonto,
                         !.impuesto_total = 0, !.lineas = lineas_actuales]
        e == reconciliar_stock_tras_editar_compra(tbl, estado_previo_lineas, lineas_actuales,
                                                  oe, on, op)
    IN IF ~formset_is_valid(lineas_actuales)
       THEN [err |-> "", valido |-> FALSE, tbl |-> tbl, orden |-> c, llamadas |-> <<>>]
       ELSE [err |-> e.err, valido |-> TRUE,
             tbl |-> IF e.err # "" THEN tbl ELSE e.tbl,
             orden |-> calcular_y_guardar_totales_compra(cab, TasaCompra(imp)),
             llamadas |-> e.llamadas]

\* Variant: the delete takes the quantities of the lines back from the stock.
eliminar_compra_RevirtiendoStock(tbl, c) ==
    LET e == AplicarLineas(Ejecucion(tbl), "compra", -1, c.lineas, OrdenAsc(DOMAIN c.lineas))
    IN [err |-> "", valido |-> TRUE, tbl |-> IF e.err # "" THEN tbl ELSE e.tbl,
        orden |-> delete_compra(c), llamadas |-> e.llamadas]

eliminar_compra(tbl, c) ==
    [err |-> "", valido |-> TRUE, tbl |-> tbl, orden |-> delete_compra(c), llamadas |-> <<>>]

\* Variant: the view commits what the stock step had written when it failed.
crear_venta_SinRollback(tbl, dmonto, imp, lineas) ==
    LET cab == [existe |-> TRUE, descuento_total |-> dmonto, impuesto |-> imp,
                impuesto_porcentaje |-> imp, subtotal |-> 0, total |-> 0, lineas |-> lineas]
        e == aplicar_stock_despues_de_crear_venta(Ejecucion(tbl), lineas, OrdenAsc(DOMAIN lineas))
    IN IF ~formset_is_valid(lineas)
       THEN [err |-> "", valido |-> FALSE, tbl |-> tbl, orden |-> delete_venta(cab),
             llamadas |-> <<>>]
       ELSE IF e.err # ""
       THEN [err |-> e.err, valido |-> TRUE, tbl |-> e.tbl, orden |-> SinVenta,
             llamadas |-> e.llamadas]
       ELSE [err |-> "", valido |-> TRUE, tbl |-> e.tbl,
             orden |-> calcular_y_guardar_totales_venta(cab, TasaVenta(imp)),
             llamadas |-> e.llamadas]

crear_venta(tbl, dmonto, imp, lineas) ==
    LET cab == [existe |-> TRUE, descuento_total |-> dmonto, impuesto |-> imp,
                impuesto_porcentaje |-> imp, subtotal |-> 0, total |-> 0, lineas |-> lineas]
        e == aplicar_stock_despues_de_crear_venta(Ejecucion(tbl), lineas, OrdenAsc(DOMAIN lineas))
    IN IF ~formset_is_valid(lineas)
       THEN [err |-> "", valido |-> FALSE, tbl |-> tbl, orden |-> delete_venta(cab),
             llamadas |-> <<>>]
       ELSE IF e.err # ""
       THEN [err |-> e.err, valido |-> TRUE, tbl |-> tbl, orden |-> SinVenta,
             llamadas |-> e.llamadas]
       ELSE [err |-> "", valido |-> TRUE, tbl |-> e.tbl,
             orden |-> calcular_y_guardar_totales_venta(cab, TasaVenta(imp)),
             llamadas |-> e.llamadas]

editar_venta(tbl, v, dmonto, imp, lineas_actuales, oe, on, op) ==
    LET estado_previo == v.lineas
        cab == [v EXCEPT !.descuento_total = dmonto, !.impuesto = imp,
                         !.lineas = lineas_actuales]
        e == reconciliar_stock_tras_editar_venta(tbl, estado_previo, lineas_actuales, oe, on, op)
    IN IF ~formset_is_valid(lineas_actuales)
       THEN [err |-> "", valido |-> FALSE, tbl |-> tbl, orden |-> v, llamadas |-> <<>>]
       ELSE [err |-> e.err, valido |-> TRUE,
             tbl |-> IF e.err # "" THEN tbl ELSE e.tbl,
             orden |-> calcular_y_guardar_totales_venta(cab, TasaVenta(imp)),
             llamadas |-> e.llamadas]

eliminar_venta(tbl, v) ==
    [err |-> "", valido |-> TRUE, tbl |-> tbl, orden |-> delete_venta(v), llamadas |-> <<>>]


\* ------------------------------------------------------------ state machine
\* A product as Producto.save() creates it (stock_minimo = floor(0.9 * stock)),
\* or with stock_minimo emptied in its form: <<stock, stock_minimo>>.
ProductosIniciales ==
    {<<0, 0>>, <<MaxStock - 1, ((MaxStock - 1) * 9) \div 10>>, <<MaxStock - 1, NULL>>}

\* What a request did, for the record of the last request: a persisting line
\* changed its quantity on the same product; an adjustment had been applied
\* when a later one failed.
Casos(previas, actuales, r) ==
    {c \in {"cantidad", "parcial"} :
        \/ /\ c = "cantidad"
           /\ \E pk \in pks_persisten(previas, actuales) :
                /\ previas[pk].producto = actuales[pk].producto
                /\ previas[pk].cantidad # actuales[pk].cantidad
        \/ /\ c = "parcial"
           /\ r.err # ""
           /\ \E i \in 1..Len(r.llamadas) : r.llamadas[i].err = "" /\ r.llamadas[i].delta # 0}

\* ult: the last request served: its view, the error that ended its stock step
\* ("" when none), what it did (Casos), for a create that was rolled back the
\* line set it had submitted, whether its line formset was valid and the tax
\* percentage it submitted.
Ultima(op, r, previas, actuales, imp) ==
    [op |-> op, err |-> r.err,
     casos |-> IF r.valido THEN Casos(previas, actuales, r) ELSE {},
     lineas |-> IF r.err # "" /\ op \in {"crear_compra", "crear_venta"}
                THEN actuales ELSE SinLineas,
     valido |-> r.valido, impuesto |-> imp]

SinUltima(op) ==
    [op |-> op, err |-> "", casos |-> {}, lineas |-> SinLineas, valido |-> TRUE,
     impuesto |-> 0]

\* Values of the variables a specification does not use.
SinRec ==
    [fase |-> "nada", lado |-> "", lineas_previas |-> SinLineas, lineas_actuales |-> SinLineas,
     oe |-> <<>>, on |-> <<>>, op |-> <<>>, stock_previo |-> [p \in Productos |-> 0],
     minimo_previo |-> [p \in Productos |-> 0], err |-> "", llamadas |-> <<>>]

Txns == {1, 2}

TxnNueva ==
    [estado |-> "nueva", lado |-> "", paso |-> "", producto |-> 0, delta |-> 0,
     leido |-> <<0, 0>>, hecho |-> [p \in Productos |-> 0], n |-> 0,
     previa |-> [p \in Productos |-> <<>>], err |-> "", solapada |-> FALSE]

SinTotales ==
    [fase |-> "nada", lado |-> "", tasa |-> NULL, veces |-> 0, guardado |-> <<0, 0>>,
     primera |-> <<>>]

InitTabla ==
    /\ \E ini \in [Productos -> ProductosIniciales] :
         /\ stock = [p \in Productos |-> ini[p][1]]
         /\ stock_minimo = [p \in Productos |-> ini[p][2]]
    /\ precio_compra = [p \in Productos |-> 250]
    /\ inicial = stock
    /\ allow_soft_minimo_en_venta = ALLOW_SOFT_MINIMO_EN_VENTA

InitPedidos ==
    /\ compra = SinCompra
    /\ venta = SinVenta
    /\ sig_id = [compra |-> 1, venta |-> 1]
    /\ ult = SinUltima("init")

InitTxns ==
    /\ candado = [p \in Productos |-> 0]
    /\ txn = [t \in Txns |-> TxnNueva]

Init ==
    /\ InitTabla
    /\ InitPedidos
    /\ InitTxns
    /\ rec = SinRec
    /\ tot = SinTotales

\* The line set a formset submits: the kept (possibly modified) lines of the
\* order plus the added lines, which take the next ids of the table (sig_id
\* numbers the lines that end up stored: the gaps a rolled-back insert leaves
\* in the sequence are not kept).
LineasTras(mant, nuevas, sig) ==
    Unir(mant, [pk \in sig..(sig + Len(nuevas) - 1) |-> nuevas[pk - sig + 1]])

Acotado(tbl) == \A p \in Productos : tbl.stock[p] <= MaxStock

Asentar(r) ==
    /\ stock' = r.tbl.stock
    /\ stock_minimo' = r.tbl.stock_minimo
    /\ precio_compra' = r.tbl.precio_compra

\* The model follows one order at a time.
SinOrden == ~compra.existe /\ ~venta.existe

\* The views, on the header values (DP, DM, IMP) and the lines (L) a form
\* submits.
CrearCompraCon(DP, DM, IMP, L) ==
    /\ SinOrden
    /\ \E dpct \in DP, dmonto \in DM, imp \in IMP, n \in 1..MaxLineas :
         /\ sig_id.compra + n - 1 \in IdsLinea \cup {0}
         /\ \E nuevas \in [1..n -> L] :
              \E lineas \in {LineasTras(SinLineas, nuevas, sig_id.compra)} :
                \E r \in {crear_compra(Tabla, dpct, dmonto, imp, lineas)} :
                   /\ Acotado(r.tbl)
                   /\ Asentar(r)
                   /\ compra' = r.orden
                   /\ sig_id' = [sig_id EXCEPT !.compra = IF r.valido THEN @ + n ELSE @]
                   /\ ult' = Ultima("crear_compra", r, SinLineas, lineas, imp)
    /\ UNCHANGED <<venta, otras>>

EditarCompraCon(DP, DM, IMP, L) ==
    /\ compra.existe
    /\ \E dpct \in DP, dmonto \in DM, imp \in IMP,
          K \in SUBSET (DOMAIN compra.lineas), n \in 0..MaxLineas :
         /\ Cardinality(K) + n \in 1..MaxLineas
         /\ sig_id.compra + n - 1 \in IdsLinea \cup {0}
         /\ \E mant \in [K -> L], nuevas \in [1..n -> L] :
              \E lineas \in {LineasTras(mant, nuevas, sig_id.compra)} :
                \E oe \in Permutaciones(pks_eliminadas(compra.lineas, lineas)),
                   on \in Permutaciones(pks_nuevas(compra.lineas, lineas)),
                   op \in Permutaciones(pks_persisten(compra.lineas, lineas)) :
                  \E r \in {editar_compra(Tabla, compra, dpct, dmonto, imp, lineas, oe, on, op)} :
                     /\ Acotado(r.tbl)
                     /\ Asentar(r)
                     /\ compra' = r.orden
                     /\ sig_id' = [sig_id EXCEPT !.compra = IF r.valido THEN @ + n ELSE @]
                     /\ ult' = Ultima("editar_compra", r, compra.lineas, lineas, imp)
    /\ UNCHANGED <<venta, otras>>

CrearVentaCon(DM, IMP, L) ==
    /\ SinOrden
    /\ \E dmonto \in DM, imp \in IMP, n \in 1..MaxLineas :
         /\ sig_id.venta + n - 1 \in IdsLinea \cup {0}
         /\ \E nuevas \in [1..n -> L] :
              \E lineas \in {LineasTras(SinLineas, nuevas, sig_id.venta)} :
                \E r \in {crear_venta(Tabla, dmonto, imp, lineas)} :
                   /\ Asentar(r)
                   /\ venta' = r.orden
                   /\ sig_id' = [sig_id EXCEPT !.venta = IF r.orden.existe THEN @ + n ELSE @]
                   /\ ult' = Ultima("crear_venta", r, SinLineas, lineas, imp)
    /\ UNCHANGED <<compra, otras>>

EditarVentaCon(DM, IMP, L) ==
    /\ venta.existe
    /\ \E dmonto \in DM, imp \in IMP,
          K \in SUBSET (DOMAIN venta.lineas), n \in 0..MaxLineas :
         /\ Cardinality(K) + n \in 1..MaxLineas
         /\ sig_id.venta + n - 1 \in IdsLinea \cup {0}
         /\ \E mant \in [K -> L], nuevas \in [1..n -> L] :
              \E lineas \in {LineasTras(mant, nuevas, sig_id.venta)} :
                \E oe \in Permutaciones(pks_eliminadas(venta.lineas, lineas)),
                   on \in Permutaciones(pks_nuevas(venta.lineas, lineas)),
                   op \in Permutaciones(pks_persisten(venta.lineas, lineas)) :
                  \E r \in {editar_venta(Tabla, venta, dmonto, imp, lineas, oe, on, op)} :
                     /\ Acotado(r.tbl)
                     /\ Asentar(r)
                     /\ venta' = r.orden
                     /\ sig_id' = [sig_id EXCEPT !.venta = IF r.valido THEN @ + n ELSE @]
                     /\ ult' = Ultima("editar_venta", r, venta.lineas, lineas, imp)
    /\ UNCHANGED <<compra, otras>>

EliminarCompra ==
    /\ compra.existe
    /\ \E r \in {eliminar_compra(Tabla, compra)} :
         /\ Asentar(r)
         /\ compra' = r.orden
         /\ ult' = Ultima("eliminar_compra", r, compra.lineas, SinLineas, 0)
    /\ UNCHANGED <<venta, sig_id, otras>>

EliminarVenta ==
    /\ venta.existe
    /\ \E r \in {eliminar_venta(Tabla, venta)} :
         /\ Asentar(r)
         /\ venta' = r.orden
         /\ ult' = Ultima("eliminar_venta", r, venta.lineas, SinLineas, 0)
    /\ UNCHANGED <<compra, sig_id, otras>>

CrearCompra ==
    CrearCompraCon(DescuentosPctPedido, DescuentosMonto, ImpuestosPct, LineasCompraPedido)

EditarCompra ==
    EditarCompraCon(DescuentosPctPedido, DescuentosMonto, ImpuestosPct, LineasCompraPedido)

CrearVenta == CrearVentaCon(DescuentosMonto, ImpuestosPct, LineasVentaPedido)

EditarVenta == EditarVentaCon(DescuentosMonto, ImpuestosPct, LineasVentaPedido)

Next ==
    \/ CrearCompra
    \/ EditarCompra
    \/ CrearVenta
    \/ EditarVenta

Spec == Init /\ [][Next]_vars

\* ------------------------------------------- the views, on any header values
\* The same views with the line forms that do not validate (cantidad 0), a
\* discount amount above the subtotal, a tax percentage above 100, and the
\* delete views.
CantidadesVistas == {0, 1}
DescuentosPctVistas == {10, 100}
DescuentosMontoVistas == {0, 999}
ImpuestosVistas == {2300, 15000}

LineasCompraVistas ==
    [producto : Productos, cantidad : CantidadesVistas, precio_unitario : Precios]
LineasVentaVistas ==
    [producto : Productos, cantidad : CantidadesVistas, precio_unitario : Precios,
     descuento : {0}]

NextVistas ==
    \/ CrearCompraCon(DescuentosPctVistas, DescuentosMonto, ImpuestosVistas, LineasCompraVistas)
    \/ EditarCompraCon(DescuentosPctVistas, DescuentosMonto, ImpuestosVistas, LineasCompraVistas)
    \/ CrearVentaCon(DescuentosMontoVistas, ImpuestosVistas, LineasVentaVistas)
    \/ EditarVentaCon(DescuentosMontoVistas, ImpuestosVistas, LineasVentaVistas)
    \/ EliminarCompra
    \/ EliminarVenta

\* Every product as Producto.save() creates it with a stock of MaxStock - 1.
InitVistas ==
    /\ stock = [p \in Productos |-> MaxStock - 1]
    /\ stock_minimo = [p \in Productos |-> ((MaxStock - 1) * 9) \div 10]
    /\ precio_compra = [p \in Productos |-> 250]
    /\ inicial = stock
    /\ allow_soft_minimo_en_venta = ALLOW_SOFT_MINIMO_EN_VENTA
    /\ InitPedidos
    /\ InitTxns
    /\ rec = SinRec
    /\ tot = SinTotales

SpecVistas == InitVistas /\ [][NextVistas]_vars

\* ------------------------------------------- the reconciliation services
\* One run of reconciliar_stock_tras_editar_compra / _venta on a snapshot and
\* a current line set, from any Producto table; rec keeps the arguments, the
\* calls of the primitive the run made and the exception it raised.
IdsNuevos == {3}

LineasDe(lado) == IF lado = "compra" THEN LineasCompra ELSE LineasVenta

InitReconciliar ==
    /\ InitTabla
    /\ InitPedidos
    /\ InitTxns
    /\ tot = SinTotales
    /\ \E lado \in {"compra", "venta"}, K \in (SUBSET IdsLinea) \ {{}} :
         \E D \in (SUBSET (K \cup IdsNuevos)) \ {{}} :
           /\ Cardinality(D) <= MaxLineas
           /\ \E previas \in [K -> LineasDe(lado)], actuales \in [D -> LineasDe(lado)] :
                \E oe \in Permutaciones(pks_eliminadas(previas, actuales)),
                   on \in Permutaciones(pks_nuevas(previas, actuales)),
                   op \in Permutaciones(pks_persisten(previas, actuales)) :
                  rec = [fase |-> "entrada", lado |-> lado, lineas_previas |-> previas,
                         lineas_actuales |-> actuales, oe |-> oe, on |-> on, op |-> op,
                         stock_previo |-> stock, minimo_previo |-> stock_minimo,
                         err |-> "", llamadas |-> <<>>]

\* Variant: the service is not atomic; what the run wrote before the exception
\* stays.
AsentarReconciliacion_SinAtomic(e) ==
    /\ stock' = e.tbl.stock
    /\ stock_minimo' = e.tbl.stock_minimo
    /\ precio_compra' = e.tbl.precio_compra
    /\ rec' = [rec EXCEPT !.fase = "hecho", !.err = e.err, !.llamadas = e.llamadas]

\* @transaction.atomic on the service: an exception undoes what the run wrote.
AsentarReconciliacion(e) ==
    /\ stock' = IF e.err # "" THEN stock ELSE e.tbl.stock
    /\ stock_minimo' = IF e.err # "" THEN stock_minimo ELSE e.tbl.stock_minimo
    /\ precio_compra' = IF e.err # "" THEN precio_compra ELSE e.tbl.precio_compra
    /\ rec' = [rec EXCEPT !.fase = "hecho", !.err = e.err, !.llamadas = e.llamadas]

ReconciliarCompra ==
    /\ rec.fase = "entrada"
    /\ rec.lado = "compra"
    /\ \E e \in {reconciliar_stock_tras_editar_compra(Tabla, rec.lineas_previas,
                     rec.lineas_actuales, rec.oe, rec.on, rec.op)} :
         AsentarReconciliacion(e)
    /\ UNCHANGED <<compra, venta, sig_id, ult, candado, txn, inicial, tot,
                   allow_soft_minimo_en_venta>>

ReconciliarVenta ==
    /\ rec.fase = "entrada"
    /\ rec.lado = "venta"
    /\ \E e \in {reconciliar_stock_tras_editar_venta(Tabla, rec.lineas_previas,
                     rec.lineas_actuales, rec.oe, rec.on, rec.op)} :
         AsentarReconciliacion(e)
    /\ UNCHANGED <<compra, venta, sig_id, ult, candado, txn, inicial, tot,
                   allow_soft_minimo_en_venta>>

NextReconciliar ==
    \/ ReconciliarCompra
    \/ ReconciliarVenta

SpecReconciliar == InitReconciliar /\ [][NextReconciliar]_vars

\* --------------------------------------------- concurrent transactions
\* Two requests run as database transactions (READ COMMITTED). Each makes up
\* to MaxLlamadas calls of the primitive of its side, one statement at a time.
\* A row written or selected FOR UPDATE stays locked by its transaction until
\* that transaction ends; a statement on a row locked by another one waits.
\* stock and stock_minimo hold the current version of each row; a rollback
\* puts back the version a transaction found when it first locked the row.
MaxLlamadas == 2
Deltas == {-1, 1}

\* What a transaction step leaves alone.
resto == <<precio_compra, compra, venta, sig_id, ult, rec, inicial, tot,
           allow_soft_minimo_en_venta>>

\* Variant: statements never wait for the row lock of another transaction.
PuedeBloquear_SinEspera(t, p) == TRUE

PuedeBloquear(t, p) == candado[p] \in {0, t}

OtraActiva(t) == \E o \in Txns \ {t} : txn[o].estado = "activa"

\* The transaction record after t locked row p (first lock keeps the pre-image).
ConCandado(t, p) ==
    [txn[t] EXCEPT !.previa[p] = IF @ = <<>> THEN <<stock[p], stock_minimo[p]>> ELSE @,
                   !.solapada = @ \/ OtraActiva(t)]

\* ROLLBACK of t with exception err.
Abortar(t, err) ==
    /\ stock' = [p \in Productos |->
                   IF txn[t].previa[p] # <<>> THEN txn[t].previa[p][1] ELSE stock[p]]
    /\ stock_minimo' = [p \in Productos |->
                          IF txn[t].previa[p] # <<>> THEN txn[t].previa[p][2]
                          ELSE stock_minimo[p]]
    /\ candado' = [p \in Productos |-> IF candado[p] = t THEN 0 ELSE candado[p]]
    /\ txn' = [txn EXCEPT ![t].estado = "abortada", ![t].paso = "", ![t].err = err]

\* The UPDATE statement of a primitive: the row is written unless a CHECK fails.
Escribir(t, p, s, m, sig_paso) ==
    LET u == DbUpdate(Tabla, p, s, m, precio_compra[p])
    IN IF u.err # "" THEN Abortar(t, u.err)
       ELSE /\ stock' = u.tbl.stock
            /\ stock_minimo' = u.tbl.stock_minimo
            /\ candado' = [candado EXCEPT ![p] = t]
            /\ txn' = [txn EXCEPT ![t] = [ConCandado(t, p) EXCEPT
                                             !.hecho[p] = @ + txn[t].delta,
                                             !.paso = sig_paso,
                                             !.n = IF sig_paso = "" THEN @ + 1 ELSE @]]

\* BEGIN: a purchase request or a sale request.
Empezar(t) ==
    /\ txn[t].estado = "nueva"
    /\ \E lado \in {"compra", "venta"} :
         txn' = [txn EXCEPT ![t].estado = "activa", ![t].lado = lado]
    /\ UNCHANGED <<stock, stock_minimo, candado, resto>>

\* The request calls _aplicar_delta_stock_seguro(producto_id, delta_unidades).
Invocar(t) ==
    /\ txn[t].estado = "activa"
    /\ txn[t].paso = ""
    /\ txn[t].n < MaxLlamadas
    /\ \E p \in Productos, d \in Deltas :
         txn' = [txn EXCEPT ![t].producto = p, ![t].delta = d,
                            ![t].paso = IF txn[t].lado = "compra" THEN "update"
                                        ELSE "bloquear"]
    /\ UNCHANGED <<stock, stock_minimo, candado, resto>>

\* compras: UPDATE ... SET stock = stock + delta.
CompraUpdate(t) ==
    /\ txn[t].estado = "activa"
    /\ txn[t].paso = "update"
    /\ PuedeBloquear(t, txn[t].producto)
    /\ Escribir(t, txn[t].producto, stock[txn[t].producto] + txn[t].delta,
                stock_minimo[txn[t].producto], "verificar")
    /\ UNCHANGED resto

\* compras: SELECT ... FOR UPDATE, then the check of the result.
CompraVerificar(t) ==
    /\ txn[t].estado = "activa"
    /\ txn[t].paso = "verificar"
    /\ PuedeBloquear(t, txn[t].producto)
    /\ IF stock[txn[t].producto] < 0
       THEN Abortar(t, "ValidationError")
       ELSE /\ txn' = [txn EXCEPT ![t].paso = "", ![t].n = @ + 1]
            /\ UNCHANGED <<stock, stock_minimo, candado, resto>>

\* ventas: SELECT ... FOR UPDATE.
VentaBloquear(t) ==
    /\ txn[t].estado = "activa"
    /\ txn[t].paso = "bloquear"
    /\ PuedeBloquear(t, txn[t].producto)
    /\ candado' = [candado EXCEPT ![txn[t].producto] = t]
    /\ txn' = [txn EXCEPT ![t] = [ConCandado(t, txn[t].producto) EXCEPT
                                     !.leido = <<stock[txn[t].producto],
                                                 stock_minimo[txn[t].producto]>>,
                                     !.paso = "actualizar"]]
    /\ UNCHANGED <<stock, stock_minimo, resto>>

\* ventas: the checks on the row as read, then the UPDATE.
VentaActualizar(t) ==
    /\ txn[t].estado = "activa"
    /\ txn[t].paso = "actualizar"
    /\ LET p == txn[t].producto
           d == txn[t].delta
           nuevo_stock == txn[t].leido[1] + d
           queda_bajo_minimo == txn[t].leido[2] # NULL /\ nuevo_stock < txn[t].leido[2]
       IN IF nuevo_stock < 0 THEN Abortar(t, "ValidationError")
          ELSE IF d < 0 /\ queda_bajo_minimo /\ allow_soft_minimo_en_venta
          THEN Escribir(t, p, stock[p] + d, Least(stock_minimo[p], stock[p] + d), "")
          ELSE IF queda_bajo_minimo THEN Abortar(t, "ValidationError")
          ELSE Escribir(t, p, stock[p] + d, stock_minimo[p], "")
    /\ UNCHANGED resto

\* COMMIT at the end of the request.
Confirmar(t) ==
    /\ txn[t].estado = "activa"
    /\ txn[t].paso = ""
    /\ txn[t].n >= 1
    /\ txn' = [txn EXCEPT ![t].estado = "confirmada"]
    /\ candado' = [p \in Productos |-> IF candado[p] = t THEN 0 ELSE candado[p]]
    /\ UNCHANGED <<stock, stock_minimo, resto>>

\* The database ends a statement that waits for a row lock (deadlock detected,
\* lock timeout) with an error: the request rolls back.
AbortarEspera(t) ==
    /\ txn[t].estado = "activa"
    /\ txn[t].paso \in {"update", "bloquear"}
    /\ ~PuedeBloquear(t, txn[t].producto)
    /\ Abortar(t, "OperationalError")
    /\ UNCHANGED resto

NextConc ==
    \/ \E t \in Txns : Empezar(t)
    \/ \E t \in Txns : Invocar(t)
    \/ \E t \in Txns : CompraUpdate(t)
    \/ \E t \in Txns : CompraVerificar(t)
    \/ \E t \in Txns : VentaBloquear(t)
    \/ \E t \in Txns : VentaActualizar(t)
    \/ \E t \in Txns : Confirmar(t)
    \/ \E t \in Txns : AbortarEspera(t)

InitConc ==
    /\ InitTabla
    /\ InitPedidos
    /\ InitTxns
    /\ rec = SinRec
    /\ tot = SinTotales

SpecConc == InitConc /\ [][NextConc]_vars

\* -------------------------------------------------- the totals calculators
\* One stored order (compra or venta) with its lines, on which the calculator
\* of its side is called up to MaxVeces times with the same tax-rate argument
\* (NULL: argument omitted). tot keeps the argument, the amounts found on the
\* header before the first call and the totals the first call stored.
MaxVeces == 2
CantidadesTotales == Cantidades \cup {10}
PreciosTotales == {250, 333}
DescuentosLinea == {0, 15}
MontosGuardados == {0, 100, 999}
Tasas == {NULL, 0, 2300}

LineasCompraTotales ==
    [producto : {1}, cantidad : CantidadesTotales, precio_unitario : PreciosTotales]
LineasVentaTotales ==
    [producto : {1}, cantidad : CantidadesTotales, precio_unitario : PreciosTotales,
     descuento : DescuentosLinea]

TotalesCompra(c) == <<c.subtotal, c.descuento_total, c.impuesto_total, c.total>>
TotalesVenta(v) == <<v.subtotal, v.descuento_total, v.impuesto, v.total>>

InitTotales ==
    /\ stock = [p \in Productos |-> 0]
    /\ stock_minimo = [p \in Productos |-> 0]
    /\ precio_compra = [p \in Productos |-> 250]
    /\ inicial = stock
    /\ allow_soft_minimo_en_venta = ALLOW_SOFT_MINIMO_EN_VENTA
    /\ sig_id = [compra |-> 1, venta |-> 1]
    /\ ult = SinUltima("init")
    /\ InitTxns
    /\ rec = SinRec
    /\ \E K \in (SUBSET IdsLinea) \ {{}}, tasa \in Tasas, desc \in MontosGuardados,
          imp \in MontosGuardados :
         \/ /\ \E lineas \in [K -> LineasCompraTotales], dpct \in DescuentosPct :
                  compra = [existe |-> TRUE, descuento_porcentaje |-> dpct,
                            descuento_total |-> desc, impuesto_total |-> imp,
                            subtotal |-> 0, total |-> 0, lineas |-> lineas]
            /\ venta = SinVenta
            /\ tot = [fase |-> "pedido", lado |-> "compra", tasa |-> tasa, veces |-> 0,
                      guardado |-> <<desc, imp>>, primera |-> <<>>]
         \/ /\ \E lineas \in [K -> LineasVentaTotales] :
                  venta = [existe |-> TRUE, descuento_total |-> desc, impuesto |-> imp,
                           impuesto_porcentaje |-> 0, subtotal |-> 0, total |-> 0,
                           lineas |-> lineas]
            /\ compra = SinCompra
            /\ tot = [fase |-> "pedido", lado |-> "venta", tasa |-> tasa, veces |-> 0,
                      guardado |-> <<desc, imp>>, primera |-> <<>>]

CalcularTotalesCompra ==
    /\ tot.fase = "pedido"
    /\ tot.lado = "compra"
    /\ tot.veces < MaxVeces
    /\ compra' = calcular_y_guardar_totales_compra(compra, tot.tasa)
    /\ tot' = [tot EXCEPT !.veces = @ + 1,
                          !.primera = IF tot.veces = 0 THEN TotalesCompra(compra') ELSE @]
    /\ UNCHANGED <<stock, stock_minimo, precio_compra, venta, sig_id, ult, rec, candado, txn,
                   inicial, allow_soft_minimo_en_venta>>

CalcularTotalesVenta ==
    /\ tot.fase = "pedido"
    /\ tot.lado = "venta"
    /\ tot.veces < MaxVeces
    /\ venta' = calcular_y_guardar_totales_venta(venta, tot.tasa)
    /\ tot' = [tot EXCEPT !.veces = @ + 1,
                          !.primera = IF tot.veces = 0 THEN TotalesVenta(venta') ELSE @]
    /\ UNCHANGED <<stock, stock_minimo, precio_compra, compra, sig_id, ult, rec, candado, txn,
                   inicial, allow_soft_minimo_en_venta>>

NextTotales ==
    \/ CalcularTotalesCompra
    \/ CalcularTotalesVenta

SpecTotales == InitTotales /\ [][NextTotales]_vars

\* ------------------------------------------------------ the stock primitives
\* One call of _aplicar_delta_stock_seguro (purchase-side or sale-side) on a
\* Producto table whose rows satisfy the CHECK constraints; the sale-side
\* policy attribute is either value a deployment can give it. rec keeps the
\* call (product, delta, exception) and the stock and stock_minimo it found.
MaxStockPrimitiva == 10
MaxDelta == 5
ProductoInexistente == 0

DeltasPrimitiva == (0 - MaxDelta)..MaxDelta

InitPrimitiva ==
    /\ \E s \in 0..MaxStockPrimitiva :
         \E m \in {NULL} \cup 0..s :
           /\ stock = [p \in Productos |-> IF p = 1 THEN s ELSE 1]
           /\ stock_minimo = [p \in Productos |-> IF p = 1 THEN m ELSE 0]
    /\ precio_compra = [p \in Productos |-> 250]
    /\ inicial = stock
    /\ allow_soft_minimo_en_venta \in BOOLEAN
    /\ InitPedidos
    /\ InitTxns
    /\ tot = SinTotales
    /\ rec = [SinRec EXCEPT !.fase = "primitiva"]

\* The table as the call itself left it, whether it returned or raised.
AsentarLlamada(lado, p, d, r) ==
    /\ \A q \in Productos : r.tbl.stock[q] <= MaxStockPrimitiva
    /\ stock' = r.tbl.stock
    /\ stock_minimo' = r.tbl.stock_minimo
    /\ precio_compra' = r.tbl.precio_compra
    /\ rec' = [rec EXCEPT !.lado = lado,
                          !.llamadas = <<[pk |-> 0, producto |-> p, delta |-> d,
                                          err |-> r.err]>>,
                          !.err = r.err,
                          !.stock_previo = stock,
                          !.minimo_previo = stock_minimo]
    /\ UNCHANGED <<compra, venta, sig_id, ult, candado, txn, inicial, tot,
                   allow_soft_minimo_en_venta>>

AplicarDeltaCompra ==
    /\ rec.fase = "primitiva"
    /\ rec.llamadas = <<>>
    /\ \E p \in Productos \cup {ProductoInexistente}, d \in DeltasPrimitiva :
         AsentarLlamada("compra", p, d, compras_aplicar_delta_stock_seguro(Tabla, p, d))

AplicarDeltaVenta ==
    /\ rec.fase = "primitiva"
    /\ rec.llamadas = <<>>
    /\ \E p \in Productos \cup {ProductoInexistente}, d \in DeltasPrimitiva :
         AsentarLlamada("venta", p, d, ventas_aplicar_delta_stock_seguro(Tabla, p, d))

NextPrimitiva ==
    \/ AplicarDeltaCompra
    \/ AplicarDeltaVenta

SpecPrimitiva == InitPrimitiva /\ [][NextPrimitiva]_vars

\* ------------------------------------------------ properties: concurrency
RECURSIVE SumaHecho(_, _)
SumaHecho(T, p) ==
    IF T = {} THEN 0
    ELSE LET t == CHOOSE x \in T : TRUE
         IN txn[t].hecho[p] + SumaHecho(T \ {t}, p)

Confirmadas == {t \in Txns : txn[t].estado = "confirmada"}

\* C1: for every product, stock >= 0 in every state, whatever the interleaving
\* of the statements of concurrent purchase-side and sale-side requests on
\* the same products.
C1_StockNoNegativo ==
    \A p \in Productos : stock[p] >= 0

\* A sale request took a product to stock 0 and committed while a purchase
\* request that lowers the same product was running; the second was refused.
C1_Testigo ==
    \E t \in Txns, o \in Txns, p \in Productos :
        /\ txn[o].estado = "confirmada"
        /\ txn[o].lado = "venta"
        /\ txn[o].hecho[p] < 0
        /\ stock[p] = 0
        /\ txn[t].estado = "abortada"
        /\ txn[t].lado = "compra"
        /\ txn[t].solapada
        /\ txn[t].producto = p
        /\ txn[t].delta < 0
        /\ txn[t].err = "IntegrityError"

\* C5: once no request is running, every product's stock is its initial stock
\* plus the deltas of the requests that committed, purchase-side and sale-side
\* alike: no delta of a committed request is lost and none of a rolled-back
\* request stays.
C5_NingunDeltaPerdido ==
    (\A t \in Txns : txn[t].estado # "activa") =>
        \A p \in Productos : stock[p] = inicial[p] + SumaHecho(Confirmadas, p)

\* A purchase request and a sale request ran at the same time on the same
\* product and both committed: the stock carries both deltas.
C5_Testigo ==
    \E t \in Txns, o \in Txns, p \in Productos :
        /\ txn[t].estado = "confirmada"
        /\ txn[o].estado = "confirmada"
        /\ txn[t].lado = "compra"
        /\ txn[o].lado = "venta"
        /\ txn[t].solapada
        /\ txn[o].solapada
        /\ txn[t].hecho[p] > 0
        /\ txn[o].hecho[p] < 0
        /\ stock[p] = inicial[p] + txn[t].hecho[p] + txn[o].hecho[p]

\* ------------------------------------------------ properties: reconciliation
\* The calls of the primitive a run made for one line id, in order.
LlamadasDe(pk) == SelectSeq(rec.llamadas, LAMBDA l : l.pk = pk)

SignoRec == IF rec.lado = "compra" THEN 1 ELSE -1

\* Product p is on line pk and on no other line, before or after the edit.
SoloEnLinea(p, pk) ==
    /\ \A q \in DOMAIN rec.lineas_previas : rec.lineas_previas[q].producto = p => q = pk
    /\ \A q \in DOMAIN rec.lineas_actuales : rec.lineas_actuales[q].producto = p => q = pk

\* The persisting lines whose quantity changed on the same product, and those
\* whose product changed.
CambianCantidad ==
    {pk \in pks_persisten(rec.lineas_previas, rec.lineas_actuales) :
        /\ rec.lineas_previas[pk].producto = rec.lineas_actuales[pk].producto
        /\ rec.lineas_previas[pk].cantidad # rec.lineas_actuales[pk].cantidad}

CambianProducto ==
    {pk \in pks_persisten(rec.lineas_previas, rec.lineas_actuales) :
        rec.lineas_previas[pk].producto # rec.lineas_actuales[pk].producto}

\* C6: when an edit changes the quantity of a persisting line from q_before to
\* q_after on the same product, the reconciliation makes at most one call of the
\* primitive for that line, on that product, with delta +(q_after - q_before)
\* for a purchase and -(q_after - q_before) for a sale; the call is made whenever
\* the run ends without exception, and a product that is on that line only then
\* ends exactly that delta away from where it started. The old and the new
\* quantity are never applied as two adjustments.
C6_UnSoloAjustePorCantidad ==
    rec.fase = "hecho" =>
        \A pk \in CambianCantidad :
            LET p == rec.lineas_actuales[pk].producto
                d == SignoRec * (rec.lineas_actuales[pk].cantidad
                                 - rec.lineas_previas[pk].cantidad)
                ll == LlamadasDe(pk)
            IN /\ Len(ll) <= 1
               /\ \A i \in 1..Len(ll) : ll[i].producto = p /\ ll[i].delta = d
               /\ rec.err = "" => Len(ll) = 1 /\ ll[1].err = ""
               /\ rec.err = "" /\ SoloEnLinea(p, pk) => stock[p] = rec.stock_previo[p] + d

\* A sale whose only line went from 1 to 2 units of the same product took one
\* more unit from the stock.
C6_Testigo ==
    /\ rec.fase = "hecho"
    /\ rec.lado = "venta"
    /\ rec.err = ""
    /\ \E pk \in CambianCantidad :
         /\ DOMAIN rec.lineas_previas = {pk}
         /\ DOMAIN rec.lineas_actuales = {pk}
         /\ rec.lineas_previas[pk].cantidad = 1
         /\ rec.lineas_actuales[pk].cantidad = 2
         /\ Len(rec.llamadas) = 1
         /\ stock[rec.lineas_actuales[pk].producto]
              = rec.stock_previo[rec.lineas_actuales[pk].producto] - 1

\* C8: when an edit keeps a line id and changes its product from A to B, the
\* calls of the primitive for that line are, in order, the old quantity reversed
\* on A (purchase: minus, sale: plus) and the new quantity applied on B
\* (purchase: plus, sale: minus): the second only after the first succeeded,
\* both whenever the run ends without exception, and nothing else; products that
\* are on that line only then end exactly those deltas away from where they
\* started.
C8_CambioDeProductoDosAjustes ==
    rec.fase = "hecho" =>
        \A pk \in CambianProducto :
            LET A == rec.lineas_previas[pk].producto
                B == rec.lineas_actuales[pk].producto
                dA == -SignoRec * rec.lineas_previas[pk].cantidad
                dB == SignoRec * rec.lineas_actuales[pk].cantidad
                ll == LlamadasDe(pk)
            IN /\ Len(ll) <= 2
               /\ Len(ll) >= 1 => ll[1].producto = A /\ ll[1].delta = dA
               /\ Len(ll) = 2 => ll[1].err = "" /\ ll[2].producto = B /\ ll[2].delta = dB
               /\ rec.err = "" => Len(ll) = 2 /\ ll[2].err = ""
               /\ rec.err = "" /\ SoloEnLinea(A, pk) /\ SoloEnLinea(B, pk) =>
                     /\ stock[A] = rec.stock_previo[A] + dA
                     /\ stock[B] = rec.stock_previo[B] + dB

\* A purchase whose only line moved from one product to another: the old
\* product lost the old quantity and the new one gained the new quantity.
C8_Testigo ==
    /\ rec.fase = "hecho"
    /\ rec.lado = "compra"
    /\ rec.err = ""
    /\ \E pk \in CambianProducto :
         /\ DOMAIN rec.lineas_previas = {pk}
         /\ DOMAIN rec.lineas_actuales = {pk}
         /\ Len(rec.llamadas) = 2
         /\ stock[rec.lineas_previas[pk].producto]
              = rec.stock_previo[rec.lineas_previas[pk].producto]
                - rec.lineas_previas[pk].cantidad
         /\ stock[rec.lineas_actuales[pk].producto]
              = rec.stock_previo[rec.lineas_actuales[pk].producto]
                + rec.lineas_actuales[pk].cantidad

\* ------------------------------------------------ properties: order views
\* Units of product p asked for by a line set.
RECURSIVE CantidadPedida(_, _)
CantidadPedida(lineas, p) ==
    IF DOMAIN lineas = {} THEN 0
    ELSE LET pk == CHOOSE x \in DOMAIN lineas : TRUE
         IN (IF lineas[pk].producto = p THEN lineas[pk].cantidad ELSE 0)
            + CantidadPedida(Restringir(lineas, (DOMAIN lineas) \ {pk}), p)

\* Some line asks for more than what the earlier lines (by id) of the same set
\* leave of its product.
Insuficiente(st, lineas) ==
    \E pk \in DOMAIN lineas :
        lineas[pk].cantidad >
            st[lineas[pk].producto]
            - CantidadPedida(Restringir(lineas, {q \in DOMAIN lineas : q < pk}),
                             lineas[pk].producto)

\* Product p is on line pk and on no other line of either line set.
SoloEn(p, pk, previas, actuales) ==
    /\ \A q \in DOMAIN previas : previas[q].producto = p => q = pk
    /\ \A q \in DOMAIN actuales : actuales[q].producto = p => q = pk

\* C2: an edit of a purchase or of a sale whose stock reconciliation is
\* rejected leaves the order (header, line set, totals) and every product's
\* stock as they were before the edit.
C2_EdicionRechazadaNoCambiaNada ==
    [][(ult'.op \in {"editar_compra", "editar_venta"} /\ ult'.err # "")
          => (compra' = compra /\ venta' = venta /\ stock' = stock)]_vars

\* C3: for every product, stock_minimo is NULL or stock_minimo <= stock, in
\* every state the create and edit views of purchases and sales reach.
C3_MinimoNoSuperaStock ==
    \A p \in Productos : stock_minimo[p] = NULL \/ stock_minimo[p] <= stock[p]

\* A purchase edit lowered a line from 2 units to 1 and left the product with
\* its stock exactly on a stock_minimo above 0.
C3_Testigo ==
    /\ ult.op = "editar_compra"
    /\ ult.err = ""
    /\ "cantidad" \in ult.casos
    /\ \E pk \in DOMAIN compra.lineas :
         /\ compra.lineas[pk].cantidad = 1
         /\ stock_minimo[compra.lineas[pk].producto] > 0
         /\ stock_minimo[compra.lineas[pk].producto] = stock[compra.lineas[pk].producto]

\* C4: when a sale is created and some line asks for more than the stock left
\* for its product by the earlier lines of the same sale, the create ends with
\* the insufficient-stock ValidationError, no sale (header or line) is stored
\* and every product's stock, that of the products of the earlier lines
\* included, is what it was before the create.
C4_VentaInsuficienteNoDejaRastro ==
    [][(/\ ult'.op = "crear_venta"
        /\ Insuficiente(stock, IF venta'.existe THEN venta'.lineas ELSE ult'.lineas))
          => (/\ ult'.err = "ValidationError"
              /\ venta' = SinVenta
              /\ stock' = stock)]_vars

\* A sale was refused on a later line after an earlier line had been taken
\* from the stock: nothing of it is stored.
C4_Testigo ==
    /\ ult.op = "crear_venta"
    /\ ult.err = "ValidationError"
    /\ "parcial" \in ult.casos
    /\ Insuficiente(stock, ult.lineas)
    /\ ~venta.existe

\* C7: an edit that removes a line from an order leaves the product of that
\* line (when no other line of the order, before or after, is on it) lower by
\* the line's quantity for a purchase and higher by it for a sale.
C7_EliminarLineaRevierteSuEfecto ==
    [][/\ ult'.op = "editar_compra" =>
            \A pk \in (DOMAIN compra.lineas) \ (DOMAIN compra'.lineas) :
                SoloEn(compra.lineas[pk].producto, pk, compra.lineas, compra'.lineas)
                  => stock'[compra.lineas[pk].producto]
                       = stock[compra.lineas[pk].producto] - compra.lineas[pk].cantidad
       /\ ult'.op = "editar_venta" =>
            \A pk \in (DOMAIN venta.lineas) \ (DOMAIN venta'.lineas) :
                SoloEn(venta.lineas[pk].producto, pk, venta.lineas, venta'.lineas)
                  => stock'[venta.lineas[pk].producto]
                       = stock[venta.lineas[pk].producto] + venta.lineas[pk].cantidad]_vars

\* ------------------------------------------------------ properties: totals
\* r is num/den rounded half-up to an integer, for num >= 0 and den > 0.
EsMedioArriba(r, num, den) ==
    /\ 2 * den * r - den <= 2 * num
    /\ 2 * num < 2 * den * r + den

RECURSIVE SumaImportes(_)
SumaImportes(lineas) ==
    IF DOMAIN lineas = {} THEN 0
    ELSE LET pk == CHOOSE x \in DOMAIN lineas : TRUE
         IN lineas[pk].cantidad * lineas[pk].precio_unitario
            + SumaImportes(Restringir(lineas, (DOMAIN lineas) \ {pk}))

\* C9: for a purchase and for a sale alike, with lines, discount and tax-rate
\* argument (given or omitted) unchanged, a second call of the totals calculator
\* leaves subtotal, discount amount, tax amount and total as the first call
\* left them.
C9_RecalculoIdempotente ==
    (tot.fase = "pedido" /\ tot.veces >= 2) =>
        /\ tot.lado = "compra" => TotalesCompra(compra) = tot.primera
        /\ tot.lado = "venta" => TotalesVenta(venta) = tot.primera

\* The purchase calculator ran twice without a rate on a header that carried
\* a tax amount and a discount amount other than the derived one.
C9_Testigo ==
    /\ tot.fase = "pedido"
    /\ tot.lado = "compra"
    /\ tot.veces = 2
    /\ tot.tasa = NULL
    /\ compra.impuesto_total > 0
    /\ tot.guardado[1] # compra.descuento_total
    /\ compra.total > 0

\* C10: after the purchase calculator ran, subtotal is the sum of quantity x
\* unit price over the lines, the discount amount is subtotal x percentage / 100
\* rounded half-up to the cent whatever amount the header carried, the tax
\* amount is max(0, subtotal - discount) x rate rounded half-up when a rate is
\* given and the stored one otherwise, and total is that base plus the tax
\* amount; one line of 10 units at 2.50 with 10% and rate 0.23 gives 25.00,
\* 2.50, 5.18 and 27.68.
C10_TotalesDeCompra ==
    (tot.fase = "pedido" /\ tot.lado = "compra" /\ tot.veces >= 1) =>
        LET S == SumaImportes(compra.lineas)
            base == IF S - compra.descuento_total < 0 THEN 0 ELSE S - compra.descuento_total
        IN /\ compra.subtotal = S
           /\ EsMedioArriba(compra.descuento_total, S * compra.descuento_porcentaje, 100)
           /\ tot.tasa # NULL => EsMedioArriba(compra.impuesto_total, base * tot.tasa, 10000)
           /\ tot.tasa = NULL => compra.impuesto_total = tot.guardado[2]
           /\ compra.total = base + compra.impuesto_total
           /\ (/\ \E pk \in IdsLinea :
                    /\ DOMAIN compra.lineas = {pk}
                    /\ compra.lineas[pk].cantidad = 10
                    /\ compra.lineas[pk].precio_unitario = 250
               /\ compra.descuento_porcentaje = 10
               /\ tot.tasa = 2300)
                 => TotalesCompra(compra) = <<2500, 250, 518, 2768>>

\* The scenario of the claim, on a header that carried another discount amount.
C10_Testigo ==
    /\ tot.fase = "pedido"
    /\ tot.lado = "compra"
    /\ tot.veces >= 1
    /\ tot.tasa = 2300
    /\ tot.guardado[1] = 999
    /\ compra.descuento_porcentaje = 10
    /\ \E pk \in IdsLinea :
         /\ DOMAIN compra.lineas = {pk}
         /\ compra.lineas[pk].cantidad = 10
         /\ compra.lineas[pk].precio_unitario = 250
    /\ TotalesCompra(compra) = <<2500, 250, 518, 2768>>

\* r is num/den rounded half-up to an integer, for num >= 0 and den even.
EsMedioArribaPar(r, num, den) ==
    /\ den * r - den \div 2 <= num
    /\ num < den * r + den \div 2

\* Sum of quantity x unit price x (100 - line discount %) over the lines of a
\* sale: the subtotal in hundredths of a cent.
RECURSIVE SumaImportesVenta(_)
SumaImportesVenta(lineas) ==
    IF DOMAIN lineas = {} THEN 0
    ELSE LET pk == CHOOSE x \in DOMAIN lineas : TRUE
         IN lineas[pk].cantidad * lineas[pk].precio_unitario * (100 - lineas[pk].descuento)
            + SumaImportesVenta(Restringir(lineas, (DOMAIN lineas) \ {pk}))

\* C11: after the sale calculator ran, the discount amount is the one the
\* header carried, and total is max(0, subtotal - discount amount) plus the tax
\* amount, rounded to the cent; when the stored discount amount exceeds the
\* subtotal, total equals the tax amount.
C11_TotalDeVenta ==
    (tot.fase = "pedido" /\ tot.lado = "venta" /\ tot.veces >= 1) =>
        LET S == SumaImportesVenta(venta.lineas)
            base == IF S - 100 * venta.descuento_total < 0 THEN 0
                    ELSE S - 100 * venta.descuento_total
        IN /\ venta.descuento_total = tot.guardado[1]
           /\ EsMedioArribaPar(venta.total - venta.impuesto, base, 100)
           /\ 100 * venta.descuento_total > S => venta.total = venta.impuesto

HuboLlamada ==
    /\ rec.fase = "primitiva"
    /\ Len(rec.llamadas) = 1
    /\ rec.llamadas[1].producto \in Productos

SinCambioDeProducto ==
    /\ stock = rec.stock_previo
    /\ stock_minimo = rec.minimo_previo

\* C14: a call of the purchase-side or of the sale-side primitive with a delta
\* for which stock + delta < 0 ends with ValidationError and leaves the stock
\* and the stock_minimo of the product as they were.
C14_DeltaBajoCeroRechazado ==
    HuboLlamada =>
        LET l == rec.llamadas[1]
        IN rec.stock_previo[l.producto] + l.delta < 0 =>
             /\ l.err = "ValidationError"
             /\ SinCambioDeProducto

\* C15: with the soft policy on, a sale-side call with a negative delta and
\* 0 <= stock + delta < stock_minimo returns without exception and leaves
\* stock = stock + delta and stock_minimo = min(stock_minimo, stock + delta);
\* stock 10 with minimum 8 and delta -5 gives stock 5 and minimum 5.
C15_PoliticaBlandaBajaElMinimo ==
    (HuboLlamada /\ rec.lado = "venta" /\ allow_soft_minimo_en_venta) =>
        LET l == rec.llamadas[1]
            s == rec.stock_previo[l.producto]
            m == rec.minimo_previo[l.producto]
        IN (l.delta < 0 /\ m # NULL /\ 0 <= s + l.delta /\ s + l.delta < m) =>
             /\ l.err = ""
             /\ stock[l.producto] = s + l.delta
             /\ stock_minimo[l.producto] = Min({m, s + l.delta})
             /\ \A q \in Productos \ {l.producto} :
                   stock[q] = rec.stock_previo[q] /\ stock_minimo[q] = rec.minimo_previo[q]

\* The scenario of the claim: stock 10, minimum 8, sale of 5.
C15_Testigo ==
    /\ HuboLlamada
    /\ rec.lado = "venta"
    /\ allow_soft_minimo_en_venta
    /\ rec.llamadas[1].delta = -5
    /\ rec.llamadas[1].err = ""
    /\ rec.stock_previo[rec.llamadas[1].producto] = 10
    /\ rec.minimo_previo[rec.llamadas[1].producto] = 8
    /\ stock[rec.llamadas[1].producto] = 5
    /\ stock_minimo[rec.llamadas[1].producto] = 5

\* C16: with the soft policy off, a sale-side call with a negative delta that
\* would leave the stock below a non-null stock_minimo ends with
\* ValidationError and changes neither stock nor stock_minimo.
C16_PoliticaDuraRechaza ==
    (HuboLlamada /\ rec.lado = "venta" /\ ~allow_soft_minimo_en_venta) =>
        LET l == rec.llamadas[1]
            s == rec.stock_previo[l.producto]
            m == rec.minimo_previo[l.producto]
        IN (l.delta < 0 /\ m # NULL /\ s + l.delta < m) =>
             /\ l.err = "ValidationError"
             /\ SinCambioDeProducto

\* With the soft policy off, a sale of 5 on stock 10 with minimum 8 was
\* refused: the stock would have stayed at 5, above 0 and below the minimum.
C16_Testigo ==
    /\ HuboLlamada
    /\ rec.lado = "venta"
    /\ ~allow_soft_minimo_en_venta
    /\ rec.llamadas[1].delta = -5
    /\ rec.llamadas[1].err = "ValidationError"
    /\ rec.stock_previo[rec.llamadas[1].producto] = 10
    /\ rec.minimo_previo[rec.llamadas[1].producto] = 8
    /\ stock[rec.llamadas[1].producto] = 10
    /\ stock_minimo[rec.llamadas[1].producto] = 8

\* C18: when a call of the primitive raises in the middle of a reconciliation
\* (purchase or sale), the run ends with that exception and every product's
\* stock and stock_minimo are the ones from before the run, whatever the
\* earlier calls of the run had applied.
C18_FalloNoDejaAjustesParciales ==
    (rec.fase = "hecho" /\ rec.err # "") =>
        /\ stock = rec.stock_previo
        /\ stock_minimo = rec.minimo_previo

\* A run applied an adjustment and a later call, on another product, raised:
\* the first product is back where it was.
C18_Testigo ==
    /\ rec.fase = "hecho"
    /\ rec.err # ""
    /\ Len(rec.llamadas) >= 2
    /\ rec.llamadas[1].err = ""
    /\ rec.llamadas[1].delta # 0
    /\ rec.llamadas[Len(rec.llamadas)].err # ""
    /\ rec.llamadas[Len(rec.llamadas)].producto # rec.llamadas[1].producto
    /\ stock = rec.stock_previo
    /\ stock_minimo = rec.minimo_previo

\* ------------------------------------------- properties: views, any header
\* C12: in every state the create and edit views reach, the purchase header
\* and the sale header have subtotal, discount amount, tax amount and total
\* >= 0, whatever discount (percentage 0..100 on a purchase, amount >= 0 on a
\* sale) and tax percentage >= 0 the forms submitted.
C12_ImportesNoNegativos ==
    /\ compra.existe =>
          /\ compra.subtotal >= 0
          /\ compra.descuento_total >= 0
          /\ compra.impuesto_total >= 0
          /\ compra.total >= 0
    /\ venta.existe =>
          /\ venta.subtotal >= 0
          /\ venta.descuento_total >= 0
          /\ venta.impuesto >= 0
          /\ venta.total >= 0

\* A create or an edit that went through to the totals step.
LlegaATotales(u) ==
    /\ u.op \in {"crear_compra", "editar_compra", "crear_venta", "editar_venta"}
    /\ u.valido
    /\ u.op \in {"crear_compra", "crear_venta"} => u.err = ""

\* C17: a create or an edit of a purchase or of a sale that submits a tax
\* percentage above 100 leaves the tax amount of the header as it was before
\* the request (0 for a header the request creates).
C17_ImpuestoFueraDeRangoConservaImporte ==
    [][(LlegaATotales(ult') /\ ult'.impuesto > 10000)
          => (/\ compra'.impuesto_total = compra.impuesto_total
              /\ venta'.impuesto = venta.impuesto)]_vars

\* C19: the delete view of a purchase or of a sale removes the header and all
\* of its lines and leaves stock and stock_minimo of every product as they
\* were: the stock effect of the deleted lines stays.
C19_EliminarNoTocaElStock ==
    [][(ult'.op \in {"eliminar_compra", "eliminar_venta"})
          => (/\ ult'.op = "eliminar_compra" => compra' = SinCompra
              /\ ult'.op = "eliminar_venta" => venta' = SinVenta
              /\ stock' = stock
              /\ stock_minimo' = stock_minimo)]_vars

\* A purchase was deleted and a product still holds the units it had added;
\* no order is left.
C19_Testigo ==
    /\ ult.op = "eliminar_compra"
    /\ ~compra.existe
    /\ DOMAIN compra.lineas = {}
    /\ ~venta.existe
    /\ \E p \in Productos : stock[p] > inicial[p]

\* C20: a create request whose line formset does not validate leaves no
\* header of a purchase or of a sale and every product's stock as it was; and
\* in no state is there a purchase or a sale header without lines.
C20_SinCabeceraHuerfana ==
    /\ [](/\ compra.existe => DOMAIN compra.lineas # {}
          /\ venta.existe => DOMAIN venta.lineas # {})
    /\ [][(ult'.op \in {"crear_compra", "crear_venta"} /\ ~ult'.valido)
            => (/\ compra' = SinCompra
                /\ venta' = SinVenta
                /\ stock' = stock
                /\ stock_minimo' = stock_minimo)]_vars

\* A purchase create came with a line formset that does not validate: no
\* header of it is stored and the stock is the initial one.
C20_Testigo ==
    /\ ult.op = "crear_compra"
    /\ ~ult.valido
    /\ ~compra.existe
    /\ ~venta.existe
    /\ stock = inicial

\* ------------------------------------------------ the purchase create view
\* crear_compra on products whose stock is large enough for int(stock * 0.90)
\* to fall below a stock_minimo already stored, with lines of different unit
\* prices.
MaxStockReferencia == 22

\* <<stock, stock_minimo>> of a product before the purchase.
ProductosReferencia ==
    {<<0, NULL>>, <<0, 0>>, <<1, 1>>, <<MaxStockReferencia - 2, NULL>>,
     <<MaxStockReferencia - 2, ((MaxStockReferencia - 2) * 9) \div 10>>,
     <<MaxStockReferencia - 2, MaxStockReferencia - 2>>}

LineasCompraReferencia ==
    [producto : Productos, cantidad : CantidadesPedido, precio_unitario : PreciosTotales]

InitReferencia ==
    /\ \E ini \in [Productos -> ProductosReferencia] :
         /\ stock = [p \in Productos |-> ini[p][1]]
         /\ stock_minimo = [p \in Productos |-> ini[p][2]]
    /\ precio_compra = [p \in Productos |-> 100]
    /\ inicial = stock
    /\ allow_soft_minimo_en_venta = ALLOW_SOFT_MINIMO_EN_VENTA
    /\ InitPedidos
    /\ InitTxns
    /\ rec = SinRec
    /\ tot = SinTotales

CrearCompraReferencia ==
    /\ SinOrden
    /\ \E dpct \in DescuentosPctPedido, dmonto \in DescuentosMonto, imp \in ImpuestosPct,
          n \in 1..MaxLineas :
         /\ sig_id.compra + n - 1 \in IdsLinea
         /\ \E nuevas \in [1..n -> LineasCompraReferencia] :
              \E lineas \in {LineasTras(SinLineas, nuevas, sig_id.compra)} :
                \E r \in {crear_compra(Tabla, dpct, dmonto, imp, lineas)} :
                   /\ \A p \in Productos : r.tbl.stock[p] <= MaxStockReferencia
                   /\ Asentar(r)
                   /\ compra' = r.orden
                   /\ sig_id' = [sig_id EXCEPT !.compra = IF r.valido THEN @ + n ELSE @]
                   /\ ult' = Ultima("crear_compra", r, SinLineas, lineas, imp)
    /\ UNCHANGED <<venta, otras>>

NextReferencia == CrearCompraReferencia

SpecReferencia == InitReferencia /\ [][NextReferencia]_vars

\* ------------------------------------------- properties: purchase create
Max(S) == CHOOSE x \in S : \A y \in S : x >= y

\* The products a line set references.
ProductosDe(lineas) == {lineas[pk].producto : pk \in DOMAIN lineas}

\* The line of highest id among those of product p.
UltimaLineaDe(lineas, p) == lineas[Max({pk \in DOMAIN lineas : lineas[pk].producto = p})]

\* C21: after a purchase create that succeeded, every product P of its lines
\* has its stock higher by the sum of the quantities of the purchase's lines
\* for P, its precio_compra equal to the unit price of the line of highest id
\* for P, and its stock_minimo equal to the larger of the previous one (NULL
\* as 0) and floor(0.9 * new stock): the create never lowers stock_minimo.
C21_EfectoDeCrearCompra ==
    [][(ult'.op = "crear_compra" /\ ult'.valido /\ ult'.err = "" /\ compra'.existe)
          => \A p \in ProductosDe(compra'.lineas) :
               /\ stock'[p] = stock[p] + CantidadPedida(compra'.lineas, p)
               /\ precio_compra'[p] = UltimaLineaDe(compra'.lineas, p).precio_unitario
               /\ stock_minimo'[p] =
                    Max({IF stock_minimo[p] = NULL THEN 0 ELSE stock_minimo[p],
                         (9 * stock'[p]) \div 10})
               /\ stock_minimo'[p] >= (IF stock_minimo[p] = NULL THEN 0 ELSE stock_minimo[p])]_vars

\* A purchase of two lines of one product at different prices, on a product
\* whose stock_minimo equalled its stock of MaxStockReferencia - 2: the stock
\* grew by both quantities, the reference cost is the price of the second
\* line and stock_minimo, above 90% of the new stock, stayed.
C21_Testigo ==
    /\ ult.op = "crear_compra"
    /\ ult.err = ""
    /\ compra.existe
    /\ DOMAIN compra.lineas = {1, 2}
    /\ compra.lineas[1].producto = compra.lineas[2].producto
    /\ compra.lineas[1].precio_unitario # compra.lineas[2].precio_unitario
    /\ LET p == compra.lineas[1].producto
       IN /\ inicial[p] = MaxStockReferencia - 2
          /\ stock[p] = inicial[p] + compra.lineas[1].cantidad + compra.lineas[2].cantidad
          /\ precio_compra[p] = compra.lineas[2].precio_unitario
          /\ stock_minimo[p] = MaxStockReferencia - 2
          /\ stock_minimo[p] > (9 * stock[p]) \div 10

\* ------------------------------------------------ the tax of a sale header
\* crear_venta and editar_venta with tax percentages within 0..100 (hundredths
\* of a percent) and lines of one unit, on products with stock MaxStock - 1.
ImpuestosVenta == {0, 1000, 2300}

LineasVentaImpuesto ==
    [producto : Productos, cantidad : {1}, precio_unitario : Precios, descuento : {0}]

NextImpuestoVenta ==
    \/ CrearVentaCon(DescuentosMonto, ImpuestosVenta, LineasVentaImpuesto)
    \/ EditarVentaCon(DescuentosMonto, ImpuestosVenta, LineasVentaImpuesto)

SpecImpuestoVenta == InitVistas /\ [][NextImpuestoVenta]_vars

\* C22: after a sale create and after a sale edit that succeeded, the header's
\* impuesto_porcentaje is the tax percentage submitted in that request, and
\* impuesto is max(0, subtotal - discount amount) x that percentage / 100,
\* rounded half-up to the cent.
C22_PorcentajeTalComoSeEnvio ==
    [][(/\ ult'.op \in {"crear_venta", "editar_venta"}
        /\ ult'.valido
        /\ ult'.err = ""
        /\ venta'.existe)
          => LET S == SumaImportesVenta(venta'.lineas)
                 base == IF S - 100 * venta'.descuento_total < 0 THEN 0
                         ELSE S - 100 * venta'.descuento_total
             IN /\ venta'.impuesto_porcentaje = ult'.impuesto
                /\ EsMedioArribaPar(venta'.impuesto, base * ult'.impuesto, 1000000)]_vars

\* ------------------------------------------ the statements of an operation
\* Two order operations run as concurrent transactions, one database statement
\* at a time. A purchase create makes, per line by ascending id, the UPDATE and
\* the SELECT ... FOR UPDATE of the primitive, then the SELECT ... FOR UPDATE
\* and the save() of aplicar_stock_despues_de_crear_compra; after the last line
\* the view reads each line's product with a plain SELECT and saves it. The
\* other operations make the statements of their primitive calls only. Every
\* line carries the price the products already have, so precio_compra keeps
\* its value. txn[t].tocados: the products whose stock or stock_minimo the
\* operation has read for a decision or written; txn[t].sin_candado: one of
\* those accesses was made on a row the transaction had not locked.
Operaciones == {"crear_compra", "editar_compra", "crear_venta", "editar_venta"}

EsCompra(op) == op \in {"crear_compra", "editar_compra"}

\* The calls of the primitive an operation makes: <<producto, delta>>, one per
\* line of a create; for an edit the call for one persisting line that keeps
\* its product, with the difference of its quantities (0 when unchanged).
LlamadasDeOperacion(op) ==
    IF op = "crear_compra"
    THEN UNION {[1..n -> Productos \X {1}] : n \in 1..MaxLineas}
    ELSE IF op = "crear_venta"
    THEN UNION {[1..n -> Productos \X {-1}] : n \in 1..MaxLineas}
    ELSE {<<<<p, (IF EsCompra(op) THEN 1 ELSE -1) * (ahora - antes)>>>> :
             p \in Productos, antes \in CantidadesPedido, ahora \in CantidadesPedido}

TxnOperacion ==
    [estado |-> "nueva", op |-> "", llamadas |-> <<>>, i |-> 0, paso |-> "",
     leido |-> <<0, 0>>, previa |-> [p \in Productos |-> <<>>], err |-> "",
     solapada |-> FALSE, tocados |-> {}, sin_candado |-> FALSE]

InitOperaciones ==
    /\ stock = [p \in Productos |-> MaxStock - 1]
    /\ stock_minimo = [p \in Productos |-> ((MaxStock - 1) * 9) \div 10]
    /\ precio_compra = [p \in Productos |-> 250]
    /\ inicial = stock
    /\ allow_soft_minimo_en_venta = ALLOW_SOFT_MINIMO_EN_VENTA
    /\ InitPedidos
    /\ candado = [p \in Productos |-> 0]
    /\ txn = [t \in Txns |-> TxnOperacion]
    /\ rec = SinRec
    /\ tot = SinTotales

\* Variant: the primitive goes on to its statements whatever the delta.
EsNoOp_Nunca(delta_unidades) == FALSE

\* "if not delta_unidades: return" at the top of both primitives.
EsNoOp(delta_unidades) == delta_unidades = 0

ProductoActual(t) == txn[t].llamadas[txn[t].i][1]
DeltaActual(t) == txn[t].llamadas[txn[t].i][2]

PrimerPaso(op) == IF EsCompra(op) THEN "update" ELSE "bloquear"

\* Where the operation goes once a call of the primitive (and, in a purchase
\* create, the update of precio_compra and stock_minimo after it) has returned.
TrasLlamada(t, r) ==
    IF r.i < Len(r.llamadas)
    THEN [r EXCEPT !.i = @ + 1, !.paso = PrimerPaso(r.op)]
    ELSE IF r.op = "crear_compra"
    THEN [r EXCEPT !.i = 1, !.paso = "vista_leer"]
    ELSE [r EXCEPT !.paso = "fin"]

\* Variant: the view is not a transaction of its own, so the transaction of
\* the service ends when the service returns and its row locks go with it.
CandadosTrasServicio_VistaSinAtomic(t, c) == [p \in Productos |-> IF c[p] = t THEN 0 ELSE c[p]]

\* The row locks when aplicar_stock_despues_de_crear_compra returns to the
\* view: the view is @transaction.atomic, the service ran in a savepoint of it
\* and the locks stay with the transaction of the view.
CandadosTrasServicio(t, c) == c

\* The row version a plain SELECT of t sees (READ COMMITTED): its own writes,
\* else the last committed version.
VersionVisible(t, p) ==
    IF candado[p] \notin {0, t} /\ txn[candado[p]].previa[p] # <<>>
    THEN txn[candado[p]].previa[p]
    ELSE <<stock[p], stock_minimo[p]>>

EmpezarOperacion(t) ==
    /\ txn[t].estado = "nueva"
    /\ \E op \in Operaciones :
         \E ll \in LlamadasDeOperacion(op) :
           txn' = [txn EXCEPT ![t].estado = "activa", ![t].op = op, ![t].llamadas = ll,
                              ![t].i = 1, ![t].paso = PrimerPaso(op)]
    /\ UNCHANGED <<stock, stock_minimo, candado, resto>>

\* Either primitive, called with a delta of 0: it returns at once.
OpSinDelta(t) ==
    /\ txn[t].estado = "activa"
    /\ txn[t].paso \in {"update", "bloquear"}
    /\ EsNoOp(DeltaActual(t))
    /\ txn' = [txn EXCEPT ![t] = TrasLlamada(t, txn[t])]
    /\ UNCHANGED <<stock, stock_minimo, candado, resto>>

\* compras primitive: UPDATE ... SET stock = stock + delta (locks the row).
OpUpdate(t) ==
    /\ txn[t].estado = "activa"
    /\ txn[t].paso = "update"
    /\ ~EsNoOp(DeltaActual(t))
    /\ PuedeBloquear(t, ProductoActual(t))
    /\ LET p == ProductoActual(t)
           u == DbUpdate(Tabla, p, stock[p] + DeltaActual(t), stock_minimo[p], precio_compra[p])
       IN IF u.err # "" THEN Abortar(t, u.err)
          ELSE /\ stock' = u.tbl.stock
               /\ stock_minimo' = u.tbl.stock_minimo
               /\ candado' = [candado EXCEPT ![p] = t]
               /\ txn' = [txn EXCEPT ![t] = [ConCandado(t, p) EXCEPT
                                                !.paso = "verificar",
                                                !.tocados = @ \cup {p}]]
    /\ UNCHANGED resto

\* compras primitive: SELECT ... FOR UPDATE and the check of the stock read.
OpVerificar(t) ==
    /\ txn[t].estado = "activa"
    /\ txn[t].paso = "verificar"
    /\ PuedeBloquear(t, ProductoActual(t))
    /\ IF stock[ProductoActual(t)] < 0
       THEN Abortar(t, "ValidationError")
       ELSE /\ txn' = [txn EXCEPT ![t] =
                         IF txn[t].op = "crear_compra"
                         THEN [txn[t] EXCEPT !.paso = "meta_leer"]
                         ELSE TrasLlamada(t, txn[t])]
            /\ UNCHANGED <<stock, stock_minimo, candado>>
    /\ UNCHANGED resto

\* aplicar_stock_despues_de_crear_compra: Producto.objects.select_for_update().get().
OpMetaLeer(t) ==
    /\ txn[t].estado = "activa"
    /\ txn[t].paso = "meta_leer"
    /\ PuedeBloquear(t, ProductoActual(t))
    /\ LET p == ProductoActual(t)
       IN /\ candado' = [candado EXCEPT ![p] = t]
          /\ txn' = [txn EXCEPT ![t] = [ConCandado(t, p) EXCEPT
                                           !.leido = <<stock[p], stock_minimo[p]>>,
                                           !.paso = "meta_guardar",
                                           !.tocados = @ \cup {p}]]
    /\ UNCHANGED <<stock, stock_minimo, resto>>

\* aplicar_stock_despues_de_crear_compra: producto.save(update_fields=
\* ["precio_compra", "stock_minimo"]) with the minimum derived from the row read.
OpMetaGuardar(t) ==
    /\ txn[t].estado = "activa"
    /\ txn[t].paso = "meta_guardar"
    /\ PuedeBloquear(t, ProductoActual(t))
    /\ LET p == ProductoActual(t)
           stock_total == txn[t].leido[1]
           minimo == txn[t].leido[2]
           minimo_candidato == (stock_total * 9) \div 10
           nuevo_minimo == IF minimo_candidato > (IF minimo = NULL THEN 0 ELSE minimo)
                           THEN minimo_candidato ELSE minimo
           u == DbUpdate(Tabla, p, stock[p], nuevo_minimo, precio_compra[p])
           c == [candado EXCEPT ![p] = t]
       IN IF u.err # "" THEN Abortar(t, u.err)
          ELSE /\ stock' = u.tbl.stock
               /\ stock_minimo' = u.tbl.stock_minimo
               /\ candado' = IF txn[t].i < Len(txn[t].llamadas) THEN c
                             ELSE CandadosTrasServicio(t, c)
               /\ txn' = [txn EXCEPT ![t] = TrasLlamada(t, [ConCandado(t, p) EXCEPT
                                                               !.tocados = @ \cup {p}])]
    /\ UNCHANGED resto

\* crear_compra, step 2: p = linea.producto, a plain SELECT, and the test of
\* its stock_minimo.
OpVistaLeer(t) ==
    /\ txn[t].estado = "activa"
    /\ txn[t].paso = "vista_leer"
    /\ LET p == ProductoActual(t)
       IN txn' = [txn EXCEPT ![t].leido = VersionVisible(t, p),
                             ![t].paso = "vista_guardar",
                             ![t].tocados = @ \cup {p},
                             ![t].sin_candado = @ \/ candado[p] # t]
    /\ UNCHANGED <<stock, stock_minimo, candado, resto>>

\* crear_compra, step 2: p.save(update_fields=...), stock_minimo among the
\* fields when the one read was empty or 0.
OpVistaGuardar(t) ==
    /\ txn[t].estado = "activa"
    /\ txn[t].paso = "vista_guardar"
    /\ PuedeBloquear(t, ProductoActual(t))
    /\ LET p == ProductoActual(t)
           sm_actual == IF txn[t].leido[2] = NULL THEN 0 ELSE txn[t].leido[2]
           nuevo_sm == IF sm_actual = 0 THEN (DeltaActual(t) * 9) \div 10 ELSE stock_minimo[p]
           u == DbUpdate(Tabla, p, stock[p], nuevo_sm, precio_compra[p])
           r == [ConCandado(t, p) EXCEPT !.tocados = @ \cup {p}]
       IN IF u.err # "" THEN Abortar(t, u.err)
          ELSE /\ stock' = u.tbl.stock
               /\ stock_minimo' = u.tbl.stock_minimo
               /\ candado' = [candado EXCEPT ![p] = t]
               /\ txn' = [txn EXCEPT ![t] =
                            IF r.i < Len(r.llamadas)
                            THEN [r EXCEPT !.i = @ + 1, !.paso = "vista_leer"]
                            ELSE [r EXCEPT !.paso = "fin"]]
    /\ UNCHANGED resto

\* ventas primitive: SELECT ... FOR UPDATE.
OpBloquear(t) ==
    /\ txn[t].estado = "activa"
    /\ txn[t].paso = "bloquear"
    /\ ~EsNoOp(DeltaActual(t))
    /\ PuedeBloquear(t, ProductoActual(t))
    /\ LET p == ProductoActual(t)
       IN /\ candado' = [candado EXCEPT ![p] = t]
          /\ txn' = [txn EXCEPT ![t] = [ConCandado(t, p) EXCEPT
                                           !.leido = <<stock[p], stock_minimo[p]>>,
                                           !.paso = "actualizar",
                                           !.tocados = @ \cup {p}]]
    /\ UNCHANGED <<stock, stock_minimo, resto>>

\* ventas primitive: the checks on the row read, then the UPDATE.
OpActualizar(t) ==
    /\ txn[t].estado = "activa"
    /\ txn[t].paso = "actualizar"
    /\ LET p == ProductoActual(t)
           d == DeltaActual(t)
           nuevo_stock == txn[t].leido[1] + d
           queda_bajo_minimo == txn[t].leido[2] # NULL /\ nuevo_stock < txn[t].leido[2]
           m == IF d < 0 /\ queda_bajo_minimo /\ allow_soft_minimo_en_venta
                THEN Least(stock_minimo[p], stock[p] + d) ELSE stock_minimo[p]
           u == DbUpdate(Tabla, p, stock[p] + d, m, precio_compra[p])
       IN IF nuevo_stock < 0 THEN Abortar(t, "ValidationError")
          ELSE IF queda_bajo_minimo /\ ~(d < 0 /\ allow_soft_minimo_en_venta)
          THEN Abortar(t, "ValidationError")
          ELSE IF u.err # "" THEN Abortar(t, u.err)
          ELSE /\ stock' = u.tbl.stock
               /\ stock_minimo' = u.tbl.stock_minimo
               /\ candado' = [candado EXCEPT ![p] = t]
               /\ txn' = [txn EXCEPT ![t] = TrasLlamada(t, ConCandado(t, p))]
    /\ UNCHANGED resto

\* COMMIT at the end of the view.
OpConfirmar(t) ==
    /\ txn[t].estado = "activa"
    /\ txn[t].paso = "fin"
    /\ txn' = [txn EXCEPT ![t].estado = "confirmada"]
    /\ candado' = [p \in Productos |-> IF candado[p] = t THEN 0 ELSE candado[p]]
    /\ UNCHANGED <<stock, stock_minimo, resto>>

\* The database ends a statement that waits for a row lock with an error.
OpAbortarEspera(t) ==
    /\ txn[t].estado = "activa"
    /\ txn[t].paso \in {"update", "bloquear", "meta_leer", "meta_guardar", "vista_guardar"}
    /\ ~EsNoOp(DeltaActual(t))
    /\ ~PuedeBloquear(t, ProductoActual(t))
    /\ Abortar(t, "OperationalError")
    /\ UNCHANGED resto

NextOperaciones ==
    \/ \E t \in Txns : EmpezarOperacion(t)
    \/ \E t \in Txns : OpSinDelta(t)
    \/ \E t \in Txns : OpUpdate(t)
    \/ \E t \in Txns : OpVerificar(t)
    \/ \E t \in Txns : OpMetaLeer(t)
    \/ \E t \in Txns : OpMetaGuardar(t)
    \/ \E t \in Txns : OpVistaLeer(t)
    \/ \E t \in Txns : OpVistaGuardar(t)
    \/ \E t \in Txns : OpBloquear(t)
    \/ \E t \in Txns : OpActualizar(t)
    \/ \E t \in Txns : OpConfirmar(t)
    \/ \E t \in Txns : OpAbortarEspera(t)

SpecOperaciones == InitOperaciones /\ [][NextOperaciones]_vars

\* C23: in a create or an edit of an order, every read of a product's stock or
\* stock_minimo that a decision or a written value depends on, and every write
\* of them, is made on a row the operation's transaction has locked, and the
\* lock stays with the transaction while the operation runs: the purchase
\* primitive, the update of precio_compra and stock_minimo in the service and
\* the one in the purchase create view included.
C23_AccesosBajoCandado ==
    \A t \in Txns :
        /\ ~txn[t].sin_candado
        /\ txn[t].estado = "activa" => \A p \in txn[t].tocados : candado[p] = t

\* Two purchase creates on the same product overlapped and both committed,
\* each after the read and the save of the view.
C23_Testigo ==
    /\ \A t \in Txns :
         /\ txn[t].estado = "confirmada"
         /\ txn[t].op = "crear_compra"
         /\ txn[t].solapada
         /\ ~txn[t].sin_candado
    /\ txn[1].tocados \cap txn[2].tocados # {}

\* ------------------------------------ properties: order of the adjustments
\* C24: the adjustments (calls of the primitive with a delta other than 0) of
\* one reconciliation run are made by ascending line id, across the removed,
\* the added and the persisting lines.
C24_AjustesPorIdAscendente ==
    rec.fase = "hecho" =>
        \A i, j \in 1..Len(rec.llamadas) :
            (i < j /\ rec.llamadas[i].delta # 0 /\ rec.llamadas[j].delta # 0)
              => rec.llamadas[i].pk <= rec.llamadas[j].pk

\* ------------------------------------ properties: primitives, other cases
\* C25: a call of the purchase-side or of the sale-side primitive with a delta
\* other than 0 for a product id that is not in the table ends with
\* ValidationError and changes no product's stock.
C25_ProductoInexistenteRechazado ==
    (/\ rec.fase = "primitiva"
     /\ Len(rec.llamadas) = 1
     /\ rec.llamadas[1].producto \notin Productos
     /\ rec.llamadas[1].delta # 0)
       => /\ rec.llamadas[1].err = "ValidationError"
          /\ stock = rec.stock_previo

\* C26: a call of either primitive with a delta of 0 returns without
\* exception on any product id, existing or not, and leaves the table as it
\* was; an edit whose persisting line keeps its product and its quantity
\* makes that call and nothing else: it locks no row, waits for none, reads
\* and writes no stock or stock_minimo, and commits.
C26_DeltaCeroNoHaceNada ==
    /\ [](/\ \A p \in Productos \cup {ProductoInexistente} :
               /\ compras_aplicar_delta_stock_seguro(Tabla, p, 0) = [err |-> "", tbl |-> Tabla]
               /\ ventas_aplicar_delta_stock_seguro(Tabla, p, 0) = [err |-> "", tbl |-> Tabla]
          /\ \A t \in Txns :
               (/\ txn[t].op \in {"editar_compra", "editar_venta"}
                /\ txn[t].llamadas[1][2] = 0)
                  => /\ txn[t].tocados = {}
                     /\ \A p \in Productos : candado[p] # t /\ txn[t].previa[p] = <<>>
                     /\ txn[t].estado \in {"activa", "confirmada"})
    /\ [][\A t \in Txns :
            (/\ txn[t].op \in {"editar_compra", "editar_venta"}
             /\ txn[t].llamadas[1][2] = 0
             /\ txn'[t] # txn[t])
               => (stock' = stock /\ stock_minimo' = stock_minimo /\ candado' = candado)]_vars

\* A sale edit that left its line as it was committed while another operation
\* held the row lock of that line's product.
C26_Testigo ==
    \E t \in Txns, o \in Txns :
        /\ txn[t].estado = "confirmada"
        /\ txn[t].op = "editar_venta"
        /\ txn[t].llamadas[1][2] = 0
        /\ txn[o].estado = "activa"
        /\ candado[txn[t].llamadas[1][1]] = o
        /\ txn[o].tocados = {txn[t].llamadas[1][1]}

\* ------------------------------------------- a purchase next to a sale
\* The create and edit views in sequence, on one purchase and one sale that
\* exist side by side, on products created with a stock of 1. A sequence is
\* followed until a request ends with a rejected stock adjustment.
InitJunto ==
    /\ stock = [p \in Productos |-> 1]
    /\ stock_minimo = [p \in Productos |-> (1 * 9) \div 10]
    /\ precio_compra = [p \in Productos |-> 250]
    /\ inicial = stock
    /\ allow_soft_minimo_en_venta = ALLOW_SOFT_MINIMO_EN_VENTA
    /\ InitPedidos
    /\ InitTxns
    /\ rec = SinRec
    /\ tot = SinTotales

SinRechazo == ult.err = ""

CrearCompraJunto ==
    /\ SinRechazo
    /\ ~compra.existe
    /\ \E n \in 1..MaxLineas :
         /\ sig_id.compra + n - 1 \in IdsLinea
         /\ \E dpct \in DescuentosPctPedido, dmonto \in DescuentosMonto, imp \in ImpuestosPct,
               nuevas \in [1..n -> LineasCompraPedido] :
              \E lineas \in {LineasTras(SinLineas, nuevas, sig_id.compra)} :
                \E r \in {crear_compra(Tabla, dpct, dmonto, imp, lineas)} :
                   /\ Acotado(r.tbl)
                   /\ Asentar(r)
                   /\ compra' = r.orden
                   /\ sig_id' = [sig_id EXCEPT !.compra = IF r.valido THEN @ + n ELSE @]
                   /\ ult' = Ultima("crear_compra", r, SinLineas, lineas, imp)
    /\ UNCHANGED <<venta, otras>>

CrearVentaJunto ==
    /\ SinRechazo
    /\ ~venta.existe
    /\ \E n \in 1..MaxLineas :
         /\ sig_id.venta + n - 1 \in IdsLinea
         /\ \E dmonto \in DescuentosMonto, imp \in ImpuestosPct,
               nuevas \in [1..n -> LineasVentaPedido] :
              \E lineas \in {LineasTras(SinLineas, nuevas, sig_id.venta)} :
                \E r \in {crear_venta(Tabla, dmonto, imp, lineas)} :
                   /\ Asentar(r)
                   /\ venta' = r.orden
                   /\ sig_id' = [sig_id EXCEPT !.venta = IF r.orden.existe THEN @ + n ELSE @]
                   /\ ult' = Ultima("crear_venta", r, SinLineas, lineas, imp)
    /\ UNCHANGED <<compra, otras>>

EditarCompraJunto ==
    /\ SinRechazo
    /\ EditarCompra

EditarVentaJunto ==
    /\ SinRechazo
    /\ EditarVenta

NextJunto ==
    \/ CrearCompraJunto
    \/ EditarCompraJunto
    \/ CrearVentaJunto
    \/ EditarVentaJunto

SpecJunto == InitJunto /\ [][NextJunto]_vars

\* Every product's stock is the initial one plus the quantities of the stored
\* purchase lines for it minus those of the stored sale lines for it.
Conserva(st, c, v) ==
    \A p \in Productos :
        st[p] = inicial[p] + CantidadPedida(c.lineas, p) - CantidadPedida(v.lineas, p)

\* C27: in a sequence of creates and edits of purchases and sales in which no
\* stock adjustment is rejected (and no order is deleted), every product's
\* stock stays equal to its initial stock plus the quantities of the stored
\* purchase lines for it minus the quantities of the stored sale lines for it,
\* several lines of one order on the same product included.
C27_StockConservado ==
    SinRechazo => Conserva(stock, compra, venta)

\* A purchase with two lines on one product and a sale exist side by side
\* after a purchase edit changed a quantity, and the stock, moved from the
\* initial one, is conserved.
C27_Testigo ==
    /\ compra.existe
    /\ venta.existe
    /\ DOMAIN compra.lineas = {1, 2}
    /\ compra.lineas[1].producto = compra.lineas[2].producto
    /\ ult.op = "editar_compra"
    /\ ult.err = ""
    /\ "cantidad" \in ult.casos
    /\ Conserva(stock, compra, venta)
    /\ stock[compra.lineas[1].producto] # inicial[compra.lineas[1].producto]

\* ------------------------------- properties: order of processing and result
\* The net sum of the adjustments of a reconciliation run for product p.
CambioNeto(p) ==
    SignoRec * (CantidadPedida(rec.lineas_actuales, p)
                - CantidadPedida(rec.lineas_previas, p))

\* C30: a reconciliation run whose net adjustments leave every product with a
\* stock >= 0 ends without exception and moves every product's stock by
\* exactly its net adjustment, in whatever order the lines are processed.
C30_ResultadoSinImportarElOrden ==
    (/\ rec.fase = "hecho"
     /\ \A p \in Productos : rec.stock_previo[p] + CambioNeto(p) >= 0)
       => /\ rec.err = ""
          /\ \A p \in Productos : stock[p] = rec.stock_previo[p] + CambioNeto(p)

\* ------------------------------------------- properties: waits for row locks
\* Operation t is at a statement that needs the row lock of a product whose
\* lock operation o holds.
EsperaA(t, o) ==
    /\ txn[t].estado = "activa"
    /\ txn[t].paso \in {"update", "bloquear", "meta_leer", "meta_guardar", "vista_guardar"}
    /\ ~EsNoOp(DeltaActual(t))
    /\ candado[ProductoActual(t)] = o

\* C29: two concurrent order operations never reach a state in which each
\* waits for a product row lock the other holds, whatever order their lines
\* reference the products in (so that each can go on to its commit or abort
\* without the database ending one of them).
C29_SinEsperaMutua ==
    \A t \in Txns : \A o \in Txns \ {t} : ~(EsperaA(t, o) /\ EsperaA(o, t))

\* ------------------------------------------- two edits of the same order
\* Two requests edit the same stored order (READ COMMITTED). Each reads the
\* lines at the top of the view (estado_previo_lineas), builds its formset on
\* the lines it finds, and from form.save() on holds the row lock of the order
\* header until its commit: the saves, the reconciliation and the totals of
\* the two requests do not interleave, their reads before form.save() do.
\* What a request wrote is seen by the other one after the commit. The edits
\* keep the line ids of the order and change products and quantities.

\* editar_compra with the snapshot the view took when it started.
editar_compra_desde(tbl, c, estado_previo_lineas, dpct, dmonto, imp, lineas_actuales, op) ==
    LET cab == [c EXCEPT !.descuento_porcentaje = dpct, !.descuento_total = dmonto,
                         !.impuesto_total = 0, !.lineas = lineas_actuales]
        e == reconciliar_stock_tras_editar_compra(tbl, estado_previo_lineas, lineas_actuales,
                                                  <<>>, <<>>, op)
    IN [err |-> e.err,
        tbl |-> IF e.err # "" THEN tbl ELSE e.tbl,
        orden |-> calcular_y_guardar_totales_compra(cab, TasaCompra(imp))]

\* editar_venta with the snapshot the view took when it started.
editar_venta_desde(tbl, v, estado_previo, dmonto, imp, lineas_actuales, op) ==
    LET cab == [v EXCEPT !.descuento_total = dmonto, !.impuesto = imp,
                         !.lineas = lineas_actuales]
        e == reconciliar_stock_tras_editar_venta(tbl, estado_previo, lineas_actuales,
                                                 <<>>, <<>>, op)
    IN [err |-> e.err,
        tbl |-> IF e.err # "" THEN tbl ELSE e.tbl,
        orden |-> calcular_y_guardar_totales_venta(cab, TasaVenta(imp))]

\* formset.save(): a form whose data differ from the row the formset was built
\* on writes its row; the other rows stay as the table has them.
formset_save(en_tabla, iniciales, enviadas) ==
    [pk \in DOMAIN en_tabla |->
        IF pk \in DOMAIN enviadas /\ enviadas[pk] # iniciales[pk]
        THEN enviadas[pk] ELSE en_tabla[pk]]

TxnEdicion ==
    [estado |-> "nueva", paso |-> "", estado_previo_lineas |-> SinLineas,
     iniciales |-> SinLineas, enviadas |-> SinLineas, cabecera |-> FALSE,
     pendiente |-> <<>>, err |-> ""]

LineasPedidoDe(lado) == IF lado = "compra" THEN LineasCompraPedido ELSE LineasVentaPedido

OrdenEditada == IF rec.lado = "compra" THEN compra ELSE venta

TablaAntesDeEdiciones ==
    [stock |-> [p \in Productos |-> MaxStock - 1],
     stock_minimo |-> [p \in Productos |-> ((MaxStock - 1) * 9) \div 10],
     precio_compra |-> [p \in Productos |-> 250]]

\* The order as its create view stored it, on products that had a stock of
\* MaxStock - 1 before.
InitEdiciones ==
    /\ allow_soft_minimo_en_venta = ALLOW_SOFT_MINIMO_EN_VENTA
    /\ \E lado \in {"compra", "venta"}, n \in 1..MaxLineas :
         \E nuevas \in [1..n -> LineasPedidoDe(lado)] :
           \E lineas \in {LineasTras(SinLineas, nuevas, 1)} :
            \E r \in {IF lado = "compra"
                      THEN crear_compra(TablaAntesDeEdiciones, 10, 0, 2300, lineas)
                      ELSE crear_venta(TablaAntesDeEdiciones, 0, 2300, lineas)} :
              /\ r.err = ""
              /\ r.orden.existe
              /\ stock = r.tbl.stock
              /\ stock_minimo = r.tbl.stock_minimo
              /\ precio_compra = r.tbl.precio_compra
              /\ compra = IF lado = "compra" THEN r.orden ELSE SinCompra
              /\ venta = IF lado = "venta" THEN r.orden ELSE SinVenta
              /\ sig_id = [compra |-> IF lado = "compra" THEN n + 1 ELSE 1,
                           venta |-> IF lado = "venta" THEN n + 1 ELSE 1]
              /\ rec = [SinRec EXCEPT !.fase = "ediciones", !.lado = lado,
                                      !.lineas_previas = lineas,
                                      !.stock_previo = r.tbl.stock,
                                      !.minimo_previo = r.tbl.stock_minimo]
    /\ inicial = stock
    /\ ult = SinUltima("init")
    /\ candado = [p \in Productos |-> 0]
    /\ txn = [t \in Txns |-> TxnEdicion]
    /\ tot = SinTotales

\* What a step of a request before its commit leaves alone.
sin_escribir == <<stock, stock_minimo, precio_compra, compra, venta, sig_id, ult, rec,
                  candado, inicial, tot, allow_soft_minimo_en_venta>>

\* The view starts: estado_previo_lineas = {l.pk: ... for l in orden.lineas.all()}.
EdSnapshot(t) ==
    /\ txn[t].estado = "nueva"
    /\ txn' = [txn EXCEPT ![t].estado = "activa", ![t].paso = "formset",
                          ![t].estado_previo_lineas = OrdenEditada.lineas]
    /\ UNCHANGED sin_escribir

\* The formset of the POST is built on the stored lines and validated.
EdFormset(t) ==
    /\ txn[t].estado = "activa"
    /\ txn[t].paso = "formset"
    /\ \E enviadas \in [DOMAIN OrdenEditada.lineas -> LineasPedidoDe(rec.lado)] :
         /\ formset_is_valid(enviadas)
         /\ txn' = [txn EXCEPT ![t].paso = "guardar",
                               ![t].iniciales = OrdenEditada.lineas,
                               ![t].enviadas = enviadas]
    /\ UNCHANGED sin_escribir

\* form.save() (waits for the row lock of the header), formset.save(), the
\* reconciliation against the snapshot and the totals.
EdGuardar(t) ==
    /\ txn[t].estado = "activa"
    /\ txn[t].paso = "guardar"
    /\ \A o \in Txns \ {t} : ~txn[o].cabecera
    /\ \E lineas \in {formset_save(OrdenEditada.lineas, txn[t].iniciales, txn[t].enviadas)} :
         \E op \in Permutaciones(pks_persisten(txn[t].estado_previo_lineas, lineas)) :
           \E r \in {IF rec.lado = "compra"
                     THEN editar_compra_desde(Tabla, compra, txn[t].estado_previo_lineas,
                                              10, 0, 2300, lineas, op)
                     ELSE editar_venta_desde(Tabla, venta, txn[t].estado_previo_lineas,
                                             0, 2300, lineas, op)} :
              txn' = [txn EXCEPT ![t].paso = "fin", ![t].cabecera = TRUE,
                                 ![t].pendiente = <<r.orden, r.tbl>>, ![t].err = r.err]
    /\ UNCHANGED sin_escribir

\* COMMIT at the end of the view: what the request wrote becomes visible and
\* its row locks are released.
EdConfirmar(t) ==
    /\ txn[t].estado = "activa"
    /\ txn[t].paso = "fin"
    /\ compra' = IF rec.lado = "compra" THEN txn[t].pendiente[1] ELSE compra
    /\ venta' = IF rec.lado = "venta" THEN txn[t].pendiente[1] ELSE venta
    /\ stock' = txn[t].pendiente[2].stock
    /\ stock_minimo' = txn[t].pendiente[2].stock_minimo
    /\ precio_compra' = txn[t].pendiente[2].precio_compra
    /\ txn' = [txn EXCEPT ![t].estado = "confirmada", ![t].paso = "",
                          ![t].cabecera = FALSE, ![t].pendiente = <<>>]
    /\ UNCHANGED <<sig_id, ult, rec, candado, inicial, tot, allow_soft_minimo_en_venta>>

NextEdiciones ==
    \/ \E t \in Txns : EdSnapshot(t)
    \/ \E t \in Txns : EdFormset(t)
    \/ \E t \in Txns : EdGuardar(t)
    \/ \E t \in Txns : EdConfirmar(t)

SpecEdiciones == InitEdiciones /\ [][NextEdiciones]_vars

\* C28: when two edits of the same order ran concurrently and both committed
\* (neither reconciliation having been rejected), every product's stock
\* differs from its value before the two edits by the stock effect of the
\* lines finally stored minus the stock effect of the original lines.
C28_EdicionesConcurrentesConservan ==
    (/\ rec.fase = "ediciones"
     /\ \A t \in Txns : txn[t].estado = "confirmada" /\ txn[t].err = "")
       => \A p \in Productos :
             stock[p] = rec.stock_previo[p]
                        + SignoRec * (CantidadPedida(OrdenEditada.lineas, p)
                                      - CantidadPedida(rec.lineas_previas, p))

====
